---- MODULE Spec2Model ----
(***************************************************************************)
(* Metadata layer of the S3-backed filesystem (S3MetaData): the inode      *)
(* catalog kept in the KV store, the handlers that mutate it, deferred     *)
(* deletion, and the root bootstrap.                                       *)
(*                                                                         *)
(* The specifications share the state:                                     *)
(*   Spec       requests arrive one at a time; one action per handler      *)
(*   SpecBoot   several nodes run the root bootstrap transaction and        *)
(*              restart, interleaved at every KV call                      *)
(*   SpecMknod  two mknod requests interleaved at every KV call            *)
(*   SpecRename rename, mknod and unlink requests, one at a time, on a     *)
(*              tree built by earlier mkdir and mknod requests              *)
(*   SpecSticky unlink, rmdir and rename requests of several users on a    *)
(*              tree with sticky directories                               *)
(*   SpecTxn    a transactional handler run one KV call after the other,   *)
(*              against whole requests of other clients; SpecTxnLive adds  *)
(*              fairness of the handler's task                             *)
(*   SpecCount  a transactional handler and two non-transactional ones,    *)
(*              interleaved at every KV call                               *)
(***************************************************************************)
EXTENDS Integers, FiniteSets, Sequences, TLC

VARIABLES
    kv,          \* KV store: INum2Node(ino) -> serialized node, or NoNode
    counter,     \* KV store: InumCounter
    started,     \* Spec: the service has run S3MetaData::new
    res,         \* the last completed request: handler, target ino, argument, error, number
    unlinked,    \* history: inums whose directory entry was removed by unlink/rmdir
    rootWrites,  \* history: number of committed writes of INum2Node(1) by bootstrap
    pc,          \* concurrent specifications: position of each task in its handler
    loc,         \* concurrent specifications: local variables of each task
    hist,        \* SpecRename, history: the store before each of the last two
                 \* requests, and the reply before the last one
    refs         \* SpecTxn / SpecCount, history: the references the kernel holds on each
                 \* inum, as replies told it (lookup and open)

vars == <<kv, counter, started, res, unlinked, rootWrites, pc, loc, hist, refs>>

----------------------------------------------------------------------------
(* Bounds of the model *)

MaxIno == 5         \* the store holds inums 1..MaxIno
MaxCreate == 2      \* Spec: nodes created by mknod in one run
MaxName == 2        \* names are 1..MaxName
MaxCount == 2       \* lookup_count / open_count are driven up to MaxCount
MaxNLookup == 2     \* forget(ino, nlookup) with nlookup in 1..MaxNLookup
NumNodes == 3       \* SpecBoot: cluster nodes that bootstrap
MaxRestarts == 2    \* SpecBoot: restarts of one node
NumProcs == 2       \* SpecMknod: concurrent requests
MaxRequests == 6    \* Spec: requests served in one run
PairRequests == 2   \* SpecRename: requests served after the tree was built
StickyRequests == 1 \* SpecSticky: requests served after the tree was built
TxnRequests == 2    \* SpecTxn: requests of the transactional client
CountRequests == 3  \* SpecCount: requests served after the file was created
MaxEntries == 4     \* SpecReaddir: entries of the directory listed
MaxSize == 4        \* SpecRead: file size and requested size, in bytes

(* Program constants *)

TXN_RETRY_LIMIT == 5
FUSE_ROOT_ID == 1
FirstInum == 2

Inums == 1..MaxIno
Names == 1..MaxName
Nodes == 1..NumNodes
Procs == 1..NumProcs
RootName == 0
RootLookupCounts == {0, 1}

NEED_CHECK_PERM == TRUE

\* Users: the superuser, and three others.  Where a specification does not
\* say who asks, the request comes from Owner, who created every node.
SuperUser == 0
Uids == {0, 1000, 1001, 1002}
ReqContext(uid) == [uid |-> uid]
Owner == ReqContext(1000)

----------------------------------------------------------------------------
(* Inode records and directory entries *)

NoNode == [kind |-> "none"]
NoEntry == [ino |-> 0, kind |-> "none", uid |-> 0]
EmptyDir == [n \in Names |-> NoEntry]

\* An entry carries the attributes of the child: here its owner.
DirEntry(ino, kind, uid) == [ino |-> ino, kind |-> kind, uid |-> uid]

\* A node as constructed for a new child: lookup_count = 1, open_count = 0.
\* uid is attr.uid and sticky is the bit 0o1000 of attr.perm.
NewNode(kind, parent, name, lc, uid, sticky) ==
    [kind |-> kind, parent_ino |-> parent, name |-> name,
     open_count |-> 0, lookup_count |-> lc,
     deferred_deletion |-> FALSE, dir_data |-> EmptyDir,
     uid |-> uid, sticky |-> sticky]

\* The root: mode 0755, owned by the superuser.
open_root_node(lc) == NewNode("dir", FUSE_ROOT_ID, RootName, lc, SuperUser, FALSE)

Sat(x) == IF x < 0 THEN 0 ELSE x

----------------------------------------------------------------------------
(* KV engine, outside a transaction *)

get_node_from_kv_engine(s, inum) == s[inum]

set_node_to_kv_engine(s, inum, node) == [s EXCEPT ![inum] = node]

remove_node_from_kv_engine(s, inum) == [s EXCEPT ![inum] = NoNode]

(* S3Node operations *)

get_entry(node, name) == node.dir_data[name]

check_name_availability(node, name) == get_entry(node, name) = NoEntry

is_node_data_empty(node) == \A n \in Names : node.dir_data[n] = NoEntry

\* An unlink_entry that leaves the entry in the directory.
unlink_entry_keeps(node, name) == node

unlink_entry(node, name) == [node EXCEPT !.dir_data[name] = NoEntry]

create_child_node(parent_node, parent, name, kind, new_inum, uid, sticky) ==
    [child  |-> NewNode(kind, parent, name, 1, uid, sticky),
     parent |-> [parent_node EXCEPT !.dir_data[name] = DirEntry(new_inum, kind, uid)]]

lookup_attr(node) == [node EXCEPT !.lookup_count = @ + 1]

dec_lookup_count_by(node, nlookup) == [node EXCEPT !.lookup_count = Sat(@ - nlookup)]

dup_fd(node) == [node EXCEPT !.open_count = @ + 1]

close(node) == [node EXCEPT !.open_count = @ - 1]

closedir(node) == [node EXCEPT !.open_count = @ - 1]

mark_deferred_deletion(node) == [node EXCEPT !.deferred_deletion = TRUE]

\* A set_parent_ino that leaves the node under its old parent.
set_parent_ino_keeps(node, parent) == node

set_parent_ino(node, parent) == [node EXCEPT !.parent_ino = parent]

\* A set_name that also takes a lookup reference on the node.
set_name_takes_reference(node, name) ==
    [node EXCEPT !.name = name, !.lookup_count = @ + 1]

set_name(node, name) == [node EXCEPT !.name = name]

remove_entry_for_rename(node, name) == [node EXCEPT !.dir_data[name] = NoEntry]

\* An insert_entry_for_rename that leaves the directory without the entry.
insert_entry_for_rename_drops(node, name, entry) == node

insert_entry_for_rename(node, name, entry) == [node EXCEPT !.dir_data[name] = entry]

----------------------------------------------------------------------------
(* Handlers, as functions from the store they read to the store they leave *)

Result(err, s) == [err |-> err, kv |-> s]

delete_check(node) == node.open_count = 0 /\ node.lookup_count = 0

forget(s, ino, nlookup) ==
    IF s[ino] = NoNode THEN Result("InconsistentFS", s)
    ELSE LET inode == dec_lookup_count_by(s[ino], nlookup)
         IN  IF delete_check(inode)
             THEN Result("ok", [s EXCEPT ![ino] = NoNode])
             ELSE Result("ok", [s EXCEPT ![ino] = inode])

release(s, ino) ==
    IF s[ino] = NoNode THEN Result("InconsistentFS", s)
    ELSE Result("ok", [s EXCEPT ![ino] = close(s[ino])])

releasedir(s, ino) ==
    IF s[ino] = NoNode THEN Result("InconsistentFS", s)
    ELSE LET node == closedir(s[ino])
         IN  IF delete_check(node)
             THEN Result("ok", [s EXCEPT ![ino] = NoNode])
             ELSE Result("ok", [s EXCEPT ![ino] = node])

open(s, ino) ==
    IF s[ino] = NoNode THEN Result("InconsistentFS", s)
    ELSE Result("ok", [s EXCEPT ![ino] = dup_fd(s[ino])])

opendir(s, ino) ==
    IF s[ino] = NoNode THEN Result("InconsistentFS", s)
    ELSE Result("ok", [s EXCEPT ![ino] = dup_fd(s[ino])])

lookup_pre_check(s, parent, name) ==
    IF s[parent] = NoNode THEN [err |-> "InconsistentFS", ino |-> 0]
    ELSE IF get_entry(s[parent], name) = NoEntry THEN [err |-> "ENOENT", ino |-> 0]
    ELSE [err |-> "ok", ino |-> get_entry(s[parent], name).ino]

lookup_helper(s, parent, name) ==
    LET pre == lookup_pre_check(s, parent, name)
    IN  IF pre.err # "ok" THEN [err |-> pre.err, kv |-> s, ino |-> 0]
        ELSE IF s[pre.ino] = NoNode THEN [err |-> "InconsistentFS", kv |-> s, ino |-> pre.ino]
        ELSE [err |-> "ok", ino |-> pre.ino,
              kv |-> set_node_to_kv_engine(s, pre.ino, lookup_attr(s[pre.ino]))]

\* An allocator that hands out the number it handed out before.
alloc_inum_stuck(c) == [inum |-> c, counter |-> c]

\* inum_allocator.alloc_inum_for_fnode(): the value of InumCounter before
\* its atomic increment.
alloc_inum(c) == [inum |-> c, counter |-> c + 1]

\* uid and sticky are param.uid and the bit 0o1000 of param.mode.
mknod(s, c, parent, name, kind, uid, sticky) ==
    IF s[parent] = NoNode THEN [err |-> "InconsistentFS", kv |-> s, counter |-> c, ino |-> 0]
    ELSE IF ~check_name_availability(s[parent], name)
         THEN [err |-> "EEXIST", kv |-> s, counter |-> c, ino |-> 0]
    ELSE LET new_inum == alloc_inum(c).inum
             made == create_child_node(s[parent], parent, name, kind, new_inum, uid, sticky)
             s1 == set_node_to_kv_engine(s, new_inum, made.child)
             s2 == set_node_to_kv_engine(s1, parent, made.parent)
         IN  [err |-> "ok", kv |-> s2, counter |-> alloc_inum(c).counter, ino |-> new_inum]

deferred_delete_pre_check(inode) ==
    [deferred_deletion |-> inode.lookup_count > 0 \/ inode.open_count > 0,
     parent_ino |-> inode.parent_ino,
     name |-> inode.name]

\* The node marked by mark_deferred_deletion is a copy read from the store
\* that is never written back: the store keeps the unmarked record.
may_deferred_delete_node_helper(s, ino) ==
    IF s[ino] = NoNode THEN Result("EIO", s)
    ELSE LET chk == deferred_delete_pre_check(s[ino])
         IN  IF s[chk.parent_ino] = NoNode THEN Result("EIO", s)
             ELSE IF get_entry(s[chk.parent_ino], chk.name) = NoEntry THEN Result("EIO", s)
             ELSE LET parent_node == unlink_entry(s[chk.parent_ino], chk.name)
                      s1 == IF chk.deferred_deletion
                            THEN LET inode == mark_deferred_deletion(get_node_from_kv_engine(s, ino))
                                 IN  s
                            ELSE remove_node_from_kv_engine(s, ino)
                  IN  Result("ok", set_node_to_kv_engine(s1, chk.parent_ino, parent_node))

\* A sticky-bit check that lets every caller through.
check_sticky_bit_off(context, parent_node, child_entry) == "ok"

\* If the sticky bit is set, only the owner of the directory, the owner of
\* the file, or the superuser can rename or delete files.
check_sticky_bit(context, parent_node, child_entry) ==
    IF /\ NEED_CHECK_PERM
       /\ context.uid # 0
       /\ parent_node.sticky
       /\ context.uid # parent_node.uid
       /\ context.uid # child_entry.uid
    THEN "EACCES"
    ELSE "ok"

remove_node_local(context, s, parent, node_name, node_type) ==
    IF s[parent] = NoNode THEN Result("InconsistentFS", s)
    ELSE IF get_entry(s[parent], node_name) = NoEntry THEN Result("ENOENT", s)
    ELSE IF check_sticky_bit(context, s[parent], get_entry(s[parent], node_name)) # "ok"
    THEN Result("EACCES", s)
    ELSE LET node_ino == get_entry(s[parent], node_name).ino
         IN  IF s[node_ino] = NoNode THEN Result("InconsistentFS", s)
             ELSE IF node_type = "dir" /\ ~is_node_data_empty(s[node_ino])
                  THEN Result("ENOTEMPTY", s)
             ELSE may_deferred_delete_node_helper(s, node_ino)

remove_node_helper(context, s, parent, node_name, node_type) ==
    remove_node_local(context, s, parent, node_name, node_type)

unlink(context, s, parent, name) ==
    IF s[parent] = NoNode THEN Result("InconsistentFS", s)
    ELSE IF get_entry(s[parent], name) = NoEntry THEN Result("InconsistentFS", s)
    ELSE remove_node_helper(context, s, parent, name, get_entry(s[parent], name).kind)

(* Standard rename: outside a transaction, one KV call after the other.   *)
(* "panic" is the outcome of an unreachable!: the request is abandoned    *)
(* with the writes made so far.                                           *)

rename_pre_check(context, s, old_parent, old_name, new_parent, new_name, no_replace) ==
    IF s[old_parent] = NoNode
    THEN [err |-> "InconsistentFS", old_ino |-> 0, new_ino |-> 0]
    ELSE IF get_entry(s[old_parent], old_name) = NoEntry
    THEN [err |-> "ENOENT", old_ino |-> 0, new_ino |-> 0]
    ELSE IF check_sticky_bit(context, s[old_parent], get_entry(s[old_parent], old_name)) # "ok"
    THEN [err |-> "EACCES", old_ino |-> 0, new_ino |-> 0]
    ELSE IF s[new_parent] = NoNode
    THEN [err |-> "InconsistentFS", old_ino |-> 0, new_ino |-> 0]
    ELSE IF /\ get_entry(s[new_parent], new_name) # NoEntry
            /\ check_sticky_bit(context, s[new_parent], get_entry(s[new_parent], new_name)) # "ok"
    THEN [err |-> "EACCES", old_ino |-> 0, new_ino |-> 0]
    ELSE IF get_entry(s[new_parent], new_name) # NoEntry /\ no_replace
    THEN [err |-> "EEXIST", old_ino |-> 0, new_ino |-> 0]
    ELSE [err |-> "ok",
          old_ino |-> get_entry(s[old_parent], old_name).ino,
          new_ino |-> get_entry(s[new_parent], new_name).ino]

rename_in_cache_helper(s, old_parent, old_name, new_parent, new_name) ==
    IF s[old_parent] = NoNode THEN Result("panic", s)
    ELSE IF get_entry(s[old_parent], old_name) = NoEntry THEN Result("panic", s)
    ELSE LET entry_to_move == get_entry(s[old_parent], old_name)
             s1 == set_node_to_kv_engine(s, old_parent,
                       remove_entry_for_rename(s[old_parent], old_name))
         IN  IF s1[new_parent] = NoNode THEN Result("panic", s1)
             ELSE Result("ok", set_node_to_kv_engine(s1, new_parent,
                       insert_entry_for_rename(s1[new_parent], new_name, entry_to_move)))

\* A pre-check that lets a NOREPLACE rename through to an existing destination.
rename_pre_check_ignores_no_replace(context, s, old_parent, old_name, new_parent, new_name, flags) ==
    rename_pre_check(context, s, old_parent, old_name, new_parent, new_name, FALSE)

\* rename_may_replace_local calls the pre-check with no_replace = (flags == 1).
rename_pre_check_of(context, s, old_parent, old_name, new_parent, new_name, flags) ==
    rename_pre_check(context, s, old_parent, old_name, new_parent, new_name, flags = 1)

rename_may_replace_local(context, s, old_parent, old_name, new_parent, new_name, flags) ==
    LET chk == rename_pre_check_of(context, s, old_parent, old_name,
                                   new_parent, new_name, flags)
    IN  IF chk.err # "ok" THEN Result(chk.err, s)
        ELSE LET del == IF chk.new_ino # 0
                        THEN may_deferred_delete_node_helper(s, chk.new_ino)
                        ELSE Result("ok", s)
             IN  IF del.err # "ok" THEN del
                 ELSE IF del.kv[chk.old_ino] = NoNode THEN Result("panic", del.kv)
                 ELSE LET moved_node == set_name(set_parent_ino(del.kv[chk.old_ino],
                                                                new_parent), new_name)
                          s2 == set_node_to_kv_engine(del.kv, chk.old_ino, moved_node)
                      IN  rename_in_cache_helper(s2, old_parent, old_name,
                                                 new_parent, new_name)

(* Exchange rename: one transaction; the writes it stages reach the store *)
(* together at the commit, in the order they were staged.                 *)

txn_set(w, key, node) == [w EXCEPT ![key] = node]

exchange_pre_check(context, s, old_parent, old_name, new_parent, new_name) ==
    IF s[old_parent] = NoNode THEN [err |-> "ENOENT", old_ino |-> 0, new_ino |-> 0]
    ELSE IF s[old_parent].kind # "dir" THEN [err |-> "ENOTDIR", old_ino |-> 0, new_ino |-> 0]
    ELSE IF get_entry(s[old_parent], old_name) = NoEntry
    THEN [err |-> "ENOENT", old_ino |-> 0, new_ino |-> 0]
    ELSE IF check_sticky_bit(context, s[old_parent], get_entry(s[old_parent], old_name)) # "ok"
    THEN [err |-> "EACCES", old_ino |-> 0, new_ino |-> 0]
    ELSE IF old_parent # new_parent /\ s[new_parent] = NoNode
    THEN [err |-> "ENOENT", old_ino |-> 0, new_ino |-> 0]
    ELSE IF old_parent # new_parent /\ s[new_parent].kind # "dir"
    THEN [err |-> "ENOTDIR", old_ino |-> 0, new_ino |-> 0]
    ELSE IF get_entry(s[new_parent], new_name) = NoEntry
    THEN [err |-> "ENOENT", old_ino |-> 0, new_ino |-> 0]
    ELSE IF check_sticky_bit(context, s[new_parent], get_entry(s[new_parent], new_name)) # "ok"
    THEN [err |-> "EACCES", old_ino |-> 0, new_ino |-> 0]
    ELSE [err |-> "ok",
          old_ino |-> get_entry(s[old_parent], old_name).ino,
          new_ino |-> get_entry(s[new_parent], new_name).ino]

\* The two entries put back by an exchange that keeps each inode under its
\* own name.
exchanged_entries_not_swapped(old_entry, new_entry) ==
    [at_old_name |-> old_entry, at_new_name |-> new_entry]

\* The entry inserted under old_name carries the attributes of new_entry, and
\* the entry inserted under new_name those of old_entry.
exchanged_entries(old_entry, new_entry) ==
    [at_old_name |-> new_entry, at_new_name |-> old_entry]

rename_exchange_helper(context, s, old_parent, old_name, new_parent, new_name, flags) ==
    IF flags = 1 THEN Result("EINVAL", s)
    ELSE LET chk == exchange_pre_check(context, s, old_parent, old_name,
                                       new_parent, new_name)
         IN  IF chk.err # "ok" THEN Result(chk.err, s)
             ELSE IF chk.old_ino = chk.new_ino THEN Result("ok", s)
             ELSE IF s[chk.old_ino] = NoNode \/ s[chk.new_ino] = NoNode
             THEN Result("InconsistentFS", s)
             ELSE LET old_node == set_name(set_parent_ino(s[chk.old_ino], new_parent), new_name)
                      new_node == set_name(set_parent_ino(s[chk.new_ino], old_parent), old_name)
                      w1 == txn_set(s, chk.old_ino, old_node)
                      w2 == txn_set(w1, chk.new_ino, new_node)
                      put == exchanged_entries(get_entry(s[old_parent], old_name),
                                               get_entry(s[new_parent], new_name))
                  IN  IF old_parent # new_parent
                      THEN LET old_parent_node ==
                                   insert_entry_for_rename(
                                       remove_entry_for_rename(s[old_parent], old_name),
                                       old_name, put.at_old_name)
                               new_parent_node ==
                                   insert_entry_for_rename(
                                       remove_entry_for_rename(s[new_parent], new_name),
                                       new_name, put.at_new_name)
                           IN  Result("ok", txn_set(txn_set(w2, old_parent, old_parent_node),
                                                    new_parent, new_parent_node))
                      ELSE LET old_parent_node ==
                                   insert_entry_for_rename(
                                       insert_entry_for_rename(
                                           remove_entry_for_rename(
                                               remove_entry_for_rename(s[old_parent], old_name),
                                               new_name),
                                           old_name, put.at_old_name),
                                       new_name, put.at_new_name)
                           IN  Result("ok", txn_set(w2, old_parent, old_parent_node))


----------------------------------------------------------------------------
(* Spec: requests served one at a time.  Each action is one whole handler. *)

NoReply == [op |-> "none", ino |-> 0, n |-> 0, err |-> "ok", arg |-> <<>>, seq |-> 0]

\* The reply of a request; seq numbers the requests served so far.  arg
\* holds the names a rename that succeeded was called with.
DoneArg(op, ino, n, err, arg) ==
    [op |-> op, ino |-> ino, n |-> n, err |-> err, arg |-> arg, seq |-> res.seq + 1]

Done(op, ino, n, err) == DoneArg(op, ino, n, err, <<>>)

\* History is recorded where it was started (SpecRename): the store before
\* each of the last two requests and the reply before the last one.
NoHist == <<>>

\* The kernel holds no reference: the history is not kept.
NoRefs == [i \in Inums |-> [lookup |-> 0, open |-> 0]]

Before(s, r) == [kv |-> s, res |-> r]

\* Of the request before the last only the store it found is kept.
Record(h, s, r) ==
    IF h = NoHist THEN NoHist ELSE <<Before(h[2].kv, NoReply), Before(s, r)>>

Accepting == res.seq < MaxRequests

Init ==
    /\ kv = [i \in Inums |-> NoNode]
    /\ counter = FirstInum
    /\ started = FALSE
    /\ res = NoReply
    /\ unlinked = {}
    /\ rootWrites = 0
    /\ pc = [p \in Procs |-> "idle"]
    /\ loc = [p \in Procs |-> NoNode]
    /\ hist = NoHist
    /\ refs = NoRefs

\* Some directory record of store s has an entry naming inum i.
IsLinked(s, i) ==
    \E d \in Inums : s[d] # NoNode /\ \E n \in Names : s[d].dir_data[n].ino = i

\* The kernel names inodes it holds: an inum with a record, and for a parent
\* a directory that was not removed by rmdir.
Held(i) == kv[i] # NoNode

LiveDir(i) == Held(i) /\ kv[i].kind = "dir" /\ i \notin unlinked

\* A bootstrap body that stages the root write whatever it read.
new_body_always_writes(prev, lc) ==
    [write |-> TRUE, node |-> open_root_node(lc)]

\* The transaction body of S3MetaData::new: skip when a root node was read,
\* else stage the write of a fresh root node.
new_body(prev, lc) ==
    IF prev # NoNode
    THEN [write |-> FALSE, node |-> prev]
    ELSE [write |-> TRUE, node |-> open_root_node(lc)]

\* S3MetaData::new in a service that starts alone: the transaction commits
\* on its first attempt.
Bootstrap ==
    /\ ~started /\ Accepting
    /\ \E lc \in RootLookupCounts :
         LET b == new_body(kv[FUSE_ROOT_ID], lc)
         IN  /\ kv' = IF b.write THEN [kv EXCEPT ![FUSE_ROOT_ID] = b.node] ELSE kv
             /\ rootWrites' = IF b.write THEN rootWrites + 1 ELSE rootWrites
    /\ started' = TRUE
    /\ res' = Done("new", FUSE_ROOT_ID, 0, "ok")
    /\ UNCHANGED <<refs, counter, unlinked, pc, loc>>
    /\ hist' = Record(hist, kv, res)

\* The requests of a specification that names no caller come from Owner,
\* with no sticky bit in the mode.
Mknod(parent, name, kind) ==
    /\ started /\ Accepting
    /\ counter <= MaxIno /\ counter < FirstInum + MaxCreate
    /\ LiveDir(parent)
    /\ LET r == mknod(kv, counter, parent, name, kind, Owner.uid, FALSE)
       IN  /\ kv' = r.kv
           /\ counter' = r.counter
           /\ res' = Done("mknod", r.ino, 0, r.err)
    /\ UNCHANGED <<refs, started, unlinked, rootWrites, pc, loc>>
    /\ hist' = Record(hist, kv, res)

Lookup(parent, name) ==
    /\ started /\ Accepting
    /\ LiveDir(parent)
    /\ LET r == lookup_helper(kv, parent, name)
       IN  /\ r.err = "ok" => kv[r.ino].lookup_count < MaxCount
           /\ kv' = r.kv
           /\ res' = Done("lookup", r.ino, 0, r.err)
    /\ UNCHANGED <<refs, counter, started, unlinked, rootWrites, pc, loc>>
    /\ hist' = Record(hist, kv, res)

Forget(ino, nlookup) ==
    /\ started /\ Accepting
    /\ Held(ino)
    /\ LET r == forget(kv, ino, nlookup)
       IN  /\ kv' = r.kv
           /\ res' = Done("forget", ino, nlookup, r.err)
    /\ UNCHANGED <<refs, counter, started, unlinked, rootWrites, pc, loc>>
    /\ hist' = Record(hist, kv, res)

Open(ino) ==
    /\ started /\ Accepting
    /\ Held(ino) /\ kv[ino].kind = "file" /\ kv[ino].open_count < MaxCount
    /\ LET r == open(kv, ino)
       IN  /\ kv' = r.kv
           /\ res' = Done("open", ino, 0, r.err)
    /\ UNCHANGED <<refs, counter, started, unlinked, rootWrites, pc, loc>>
    /\ hist' = Record(hist, kv, res)

Opendir(ino) ==
    /\ started /\ Accepting
    /\ Held(ino) /\ kv[ino].kind = "dir" /\ kv[ino].open_count < MaxCount
    /\ LET r == opendir(kv, ino)
       IN  /\ kv' = r.kv
           /\ res' = Done("opendir", ino, 0, r.err)
    /\ UNCHANGED <<refs, counter, started, unlinked, rootWrites, pc, loc>>
    /\ hist' = Record(hist, kv, res)

\* The kernel releases a handle it holds: open_count > 0.
Release(ino) ==
    /\ started /\ Accepting
    /\ Held(ino) /\ kv[ino].kind = "file" /\ kv[ino].open_count > 0
    /\ LET r == release(kv, ino)
       IN  /\ kv' = r.kv
           /\ res' = Done("release", ino, 0, r.err)
    /\ UNCHANGED <<refs, counter, started, unlinked, rootWrites, pc, loc>>
    /\ hist' = Record(hist, kv, res)

Releasedir(ino) ==
    /\ started /\ Accepting
    /\ Held(ino) /\ kv[ino].kind = "dir" /\ kv[ino].open_count > 0
    /\ LET r == releasedir(kv, ino)
       IN  /\ kv' = r.kv
           /\ res' = Done("releasedir", ino, 0, r.err)
    /\ UNCHANGED <<refs, counter, started, unlinked, rootWrites, pc, loc>>
    /\ hist' = Record(hist, kv, res)

EntryIno(parent, name) ==
    IF kv[parent] = NoNode THEN 0 ELSE get_entry(kv[parent], name).ino

EntryKind(parent, name) ==
    IF kv[parent] = NoNode THEN "none" ELSE get_entry(kv[parent], name).kind

\* The kernel sends unlink for an entry that is not a directory.
UnlinkAs(context, parent, name) ==
    /\ started /\ Accepting
    /\ LiveDir(parent)
    /\ EntryKind(parent, name) # "dir"
    /\ LET r == unlink(context, kv, parent, name)
       IN  /\ kv' = r.kv
           /\ res' = Done("unlink", EntryIno(parent, name), 0, r.err)
           /\ unlinked' = IF r.err = "ok" THEN unlinked \cup {EntryIno(parent, name)}
                          ELSE unlinked
    /\ UNCHANGED <<refs, counter, started, rootWrites, pc, loc>>
    /\ hist' = Record(hist, kv, res)

Unlink(parent, name) == UnlinkAs(Owner, parent, name)

\* The kernel sends rmdir for an entry that is a directory.
RmdirAs(context, parent, name) ==
    /\ started /\ Accepting
    /\ LiveDir(parent)
    /\ EntryKind(parent, name) # "file"
    /\ LET r == remove_node_helper(context, kv, parent, name, "dir")
       IN  /\ kv' = r.kv
           /\ res' = Done("rmdir", EntryIno(parent, name), 0, r.err)
           /\ unlinked' = IF r.err = "ok" THEN unlinked \cup {EntryIno(parent, name)}
                          ELSE unlinked
    /\ UNCHANGED <<refs, counter, started, rootWrites, pc, loc>>
    /\ hist' = Record(hist, kv, res)

Rmdir(parent, name) == RmdirAs(Owner, parent, name)

\* Inum d is inum a or lies below it, following parent_ino for at most k steps.
RECURSIVE InSubtree(_, _, _, _)
InSubtree(s, a, d, k) ==
    \/ d = a
    \/ /\ k > 0 /\ d # FUSE_ROOT_ID /\ s[d] # NoNode
       /\ InSubtree(s, a, s[d].parent_ino, k - 1)

RenameFlags == 0..3

\* The caller of the two helpers picks the exchange helper when the
\* RENAME_EXCHANGE bit (2) is set in flags.
is_exchange(flags) == (flags \div 2) % 2 = 1

rename(context, s, old_parent, old_name, new_parent, new_name, flags) ==
    IF is_exchange(flags)
    THEN rename_exchange_helper(context, s, old_parent, old_name,
                                new_parent, new_name, flags)
    ELSE rename_may_replace_local(context, s, old_parent, old_name,
                                  new_parent, new_name, flags)

\* The kernel sends rename for a source entry it has resolved, between
\* directories it holds, and never moves a directory below itself.
RenameAs(context, old_parent, old_name, new_parent, new_name, flags) ==
    /\ started /\ Accepting
    /\ LiveDir(old_parent) /\ LiveDir(new_parent)
    /\ EntryIno(old_parent, old_name) # 0
    /\ ~InSubtree(kv, EntryIno(old_parent, old_name), new_parent, MaxIno)
    /\ is_exchange(flags) /\ EntryIno(new_parent, new_name) # 0
          => ~InSubtree(kv, EntryIno(new_parent, new_name), old_parent, MaxIno)
    /\ LET moved == EntryIno(old_parent, old_name)
           replaced == EntryIno(new_parent, new_name)
           r == rename(context, kv, old_parent, old_name, new_parent, new_name, flags)
       IN  /\ kv' = r.kv
           /\ res' = IF r.err = "ok"
                     THEN DoneArg("rename", moved, flags, "ok",
                                  <<old_parent, old_name, new_parent, new_name>>)
                     ELSE Done("rename", 0, flags, r.err)
           /\ unlinked' = IF replaced # 0 /\ IsLinked(kv, replaced) /\ ~IsLinked(r.kv, replaced)
                          THEN unlinked \cup {replaced}
                          ELSE unlinked
    /\ UNCHANGED <<refs, counter, started, rootWrites, pc, loc>>
    /\ hist' = Record(hist, kv, res)

Rename(old_parent, old_name, new_parent, new_name, flags) ==
    RenameAs(Owner, old_parent, old_name, new_parent, new_name, flags)

Next ==
    \/ Bootstrap
    \/ \E p \in Inums, n \in Names, k \in {"file", "dir"} : Mknod(p, n, k)
    \/ \E p \in Inums, n \in Names : Lookup(p, n)
    \/ \E i \in Inums, n \in 1..MaxNLookup : Forget(i, n)
    \/ \E i \in Inums : Open(i)
    \/ \E i \in Inums : Opendir(i)
    \/ \E i \in Inums : Release(i)
    \/ \E i \in Inums : Releasedir(i)
    \/ \E p \in Inums, n \in Names : Unlink(p, n)
    \/ \E p \in Inums, n \in Names : Rmdir(p, n)

Spec == Init /\ [][Next]_vars

----------------------------------------------------------------------------
(* Properties of Spec *)

\* The node was unlinked from its parent and its record is kept for the
\* references that remain (the deferred_deletion state of the data model).
IsDeferred(s, i) ==
    s[i] # NoNode /\ (i \in unlinked \/ s[i].deferred_deletion)

\* The counts held by the handler of the step at the moment it deletes record i.
LookupCountAtDelete(i) ==
    IF res'.op = "forget" THEN Sat(kv[i].lookup_count - res'.n) ELSE kv[i].lookup_count

OpenCountAtDelete(i) ==
    IF res'.op \in {"release", "releasedir"} THEN kv[i].open_count - 1 ELSE kv[i].open_count

\* C2: an inode record is deleted from the KV store only if, at that moment,
\* it is unlinked from its parent directory and its lookup_count and
\* open_count are both 0.
C2_DeleteOnlyWhenUnlinkedAndUnreferenced ==
    [][\A i \in Inums :
         (kv[i] # NoNode /\ kv'[i] = NoNode)
            => /\ ~IsLinked(kv', i)
               /\ LookupCountAtDelete(i) = 0
               /\ OpenCountAtDelete(i) = 0]_vars

\* C3: after every completed request, every entry of every directory names
\* an inode whose record exists, or one that is deferred-deleted and removed.
C3_NoDanglingEntry ==
    \A d \in Inums : \A n \in Names :
        (kv[d] # NoNode /\ kv[d].dir_data[n] # NoEntry)
           => \/ kv[kv[d].dir_data[n].ino] # NoNode
              \/ kv[d].dir_data[n].ino \in unlinked

\* C4: after every completed request, every non-root inode record has a
\* parent_ino that names an existing directory record, and that directory
\* has an entry with the inode's name that points back at the inode.  Read
\* in the claim's favour: records kept by a deferred deletion are exempt.
C4_ParentPointsBack ==
    \A i \in Inums \ {FUSE_ROOT_ID} :
        (kv[i] # NoNode /\ i \notin unlinked)
           => /\ kv[kv[i].parent_ino] # NoNode
              /\ kv[kv[i].parent_ino].kind = "dir"
              /\ kv[kv[i].parent_ino].dir_data[kv[i].name].ino = i

\* C7: once bootstrapped, the record INum2Node(1) exists in every state.
C7_RootNeverDeleted ==
    started => kv[FUSE_ROOT_ID] # NoNode

\* C9: forget(ino, nlookup) removes the record if and only if the node is
\* deferred-deleted and both counts are 0 after the decrement; otherwise it
\* persists the record with lookup_count decremented (saturating at 0).
C9_ForgetRemovesIffDeferredAndUnreferenced ==
    [][(res'.op = "forget" /\ res'.err = "ok")
         => LET i == res'.ino
                lc == Sat(kv[i].lookup_count - res'.n)
            IN  IF IsDeferred(kv, i) /\ lc = 0 /\ kv[i].open_count = 0
                THEN kv'[i] = NoNode
                ELSE kv'[i] = [kv[i] EXCEPT !.lookup_count = lc]]_vars

\* C10: release on a deferred-deleted file whose open_count drops to 0 while
\* lookup_count is 0 removes the inode record from the KV store.
C10_ReleaseRemovesDeferredFile ==
    [][(/\ res'.op = "release" /\ res'.err = "ok"
        /\ IsDeferred(kv, res'.ino)
        /\ kv[res'.ino].kind = "file"
        /\ kv[res'.ino].open_count = 1
        /\ kv[res'.ino].lookup_count = 0)
         => kv'[res'.ino] = NoNode]_vars

\* C11: releasedir(ino, fh) removes the directory's record if and only if the
\* directory is deferred-deleted and open_count and lookup_count are both 0
\* after the close; a directory still linked in its parent is never removed.
C11_ReleasedirRemovesIffDeferredAndUnreferenced ==
    [][(res'.op = "releasedir" /\ res'.err = "ok")
         => LET i == res'.ino
                node == closedir(kv[i])
            IN  /\ (kv'[i] = NoNode)
                      <=> (IsDeferred(kv, i) /\ node.open_count = 0 /\ node.lookup_count = 0)
                /\ IsLinked(kv, i) => kv'[i] # NoNode]_vars

\* C12: when unlink or rmdir removes an entry whose inode has lookup_count > 0
\* or open_count > 0, the entry leaves the parent and the inode record stays
\* in the store with deferred_deletion = true; when both counts are 0 the
\* record is deleted instead.
C12_UnlinkPersistsDeferredFlag ==
    [][(res'.op \in {"unlink", "rmdir"} /\ res'.err = "ok")
         => LET i == res'.ino
            IN  /\ ~IsLinked(kv', i)
                /\ IF kv[i].lookup_count > 0 \/ kv[i].open_count > 0
                   THEN kv'[i] # NoNode /\ kv'[i].deferred_deletion
                   ELSE kv'[i] = NoNode]_vars

\* C13: a lookup that follows forget(ino, n) and names an entry of that inode
\* returns the same ino whenever the node was not unlinked: after forget
\* drops lookup_count to 0 on a node still linked in its parent, the lookup
\* of its name succeeds.
C13_LookupAfterForgetSameIno ==
    [][(/\ res.op = "forget" /\ res.err = "ok"
        /\ res'.op = "lookup" /\ res'.ino = res.ino
        /\ res.ino \notin unlinked)
         => res'.err = "ok"]_vars

----------------------------------------------------------------------------
(* SpecRename: rename, mknod and unlink requests served one at a time on  *)
(* a tree that earlier mkdir and mknod requests built.  PairRequests      *)
(* requests are served, and the history of the last two is kept.          *)

\* The store after the creation requests reqs of Owner, each
\* <<parent, name, kind>>.
RECURSIVE Build(_, _, _)
Build(s, c, reqs) ==
    IF reqs = <<>> THEN [kv |-> s, counter |-> c]
    ELSE LET r == mknod(s, c, reqs[1][1], reqs[1][2], reqs[1][3], Owner.uid, FALSE)
         IN  Build(r.kv, r.counter, Tail(reqs))

\* Scenario S6: mkdir(1, d1) -> 2, mkdir(1, d2) -> 3, mknod(2, x) -> 4,
\* mknod(3, y) -> 5, with d1 = x = name 1 and d2 = y = name 2.
TreeS6 == << <<1, 1, "dir">>, <<1, 2, "dir">>, <<2, 1, "file">>, <<3, 2, "file">> >>

Trees == { <<>>, TreeS6 }

\* The store after open(ino), forget(ino, 1) and release(ino): the file is
\* left linked with no reference.
DropReferences(s, ino) == release(forget(open(s, ino).kv, ino, 1).kv, ino).kv

\* In the tree of S6 the file y (ino 5) was opened, forgotten and released.
Unreferenced(reqs) == IF reqs = TreeS6 THEN 5 ELSE 0

\* The root is held by the kernel (lookup_count 1); its counts play no part
\* in mknod, unlink and rename.
InitRename ==
    /\ \E reqs \in Trees :
         LET root == [i \in Inums |-> IF i = FUSE_ROOT_ID THEN open_root_node(1) ELSE NoNode]
             b == Build(root, FirstInum, reqs)
         IN  /\ kv = IF Unreferenced(reqs) # 0
                     THEN DropReferences(b.kv, Unreferenced(reqs))
                     ELSE b.kv
             /\ counter = b.counter
    /\ started = TRUE
    /\ res = [NoReply EXCEPT !.seq = MaxRequests - PairRequests]
    /\ unlinked = {}
    /\ rootWrites = 1
    /\ pc = [p \in Procs |-> "idle"]
    /\ loc = [p \in Procs |-> NoNode]
    /\ hist = <<Before(kv, NoReply), Before(kv, NoReply)>>
    /\ refs = NoRefs

NextRename ==
    \/ \E p \in Inums, n \in Names, k \in {"file", "dir"} : Mknod(p, n, k)
    \/ \E p \in Inums, n \in Names : Unlink(p, n)
    \/ \E p \in Inums, n \in Names, q \in Inums, m \in Names, f \in RenameFlags :
           Rename(p, n, q, m, f)

SpecRename == InitRename /\ [][NextRename]_vars

(* Properties of SpecRename.  last is the request just served, prev the   *)
(* one before it; hist[2].kv is the store between the two and hist[1].kv  *)
(* the store before both.                                                 *)

RenameOk(r, flags) == r.op = "rename" /\ r.err = "ok" /\ r.n = flags

MknodThenUnlink ==
    /\ hist[2].res.op = "mknod" /\ hist[2].res.err = "ok"
    /\ res.op = "unlink" /\ res.err = "ok"
    /\ res.ino = hist[2].res.ino

\* C14 as stated: mknod(p, n) immediately followed by unlink(p, n) leaves the
\* KV store identical to its state before the mknod, InumCounter apart: no
\* record of the created child remains and the parent record is as before.
C14_MknodUnlinkRestoresStore ==
    MknodThenUnlink => kv = hist[1].kv

\* C14, amended: mknod(p, n) of a file immediately followed by unlink(p, n)
\* leaves every record but the child's equal to its state before the mknod,
\* the parent record included; the record of the created child stays in the
\* store, linked nowhere, with the lookup_count = 1 that mknod gave it.
C14_MknodUnlinkRestoresParentKeepsChild ==
    MknodThenUnlink
       => /\ \A i \in Inums \ {res.ino} : kv[i] = hist[1].kv[i]
          /\ hist[1].kv[res.ino] = NoNode
          /\ kv[res.ino] # NoNode
          /\ kv[res.ino].lookup_count = 1
          /\ kv[res.ino].open_count = 0
          /\ ~IsLinked(kv, res.ino)

C14_Witness ==
    /\ MknodThenUnlink
    /\ kv[res.ino] # NoNode
    /\ hist[1].kv[hist[2].kv[res.ino].parent_ino] = kv[hist[2].kv[res.ino].parent_ino]

\* The last two requests are rename(a -> b) and rename(b -> a), both served
\* with flags = 0, and b did not exist before the first.
RenameThereAndBack ==
    /\ RenameOk(hist[2].res, 0) /\ RenameOk(res, 0)
    /\ res.arg = <<hist[2].res.arg[3], hist[2].res.arg[4],
                   hist[2].res.arg[1], hist[2].res.arg[2]>>
    /\ get_entry(hist[1].kv[hist[2].res.arg[3]], hist[2].res.arg[4]) = NoEntry

\* C15: when destination b does not exist, rename(a -> b) followed by
\* rename(b -> a), in one directory or across two, with flags = 0, restores
\* the filesystem state: the moved inode's parent_ino and name and both
\* parents' entry maps are what they were before the first rename.
C15_RenameRoundTrip ==
    RenameThereAndBack => kv = hist[1].kv

C15_Witness ==
    /\ RenameThereAndBack
    /\ res.arg[1] # res.arg[3]
    /\ hist[2].kv # kv
    /\ kv[res.ino].parent_ino = res.arg[3] /\ kv[res.ino].name = res.arg[4]

\* The last two requests are the same exchange rename, both served.
ExchangeTwice ==
    /\ RenameOk(hist[2].res, 2) /\ RenameOk(res, 2)
    /\ res.arg = hist[2].res.arg

\* C16: exchange rename is its own inverse: rename(old = (P1, n1),
\* new = (P2, n2), RENAME_EXCHANGE) applied twice restores both inodes'
\* parent_ino and name and both parents' entry maps, for P1 = P2 and P1 # P2.
C16_ExchangeTwiceIsIdentity ==
    ExchangeTwice => kv = hist[1].kv

C16_Witness ==
    /\ ExchangeTwice
    /\ res.arg[1] # res.arg[3]
    /\ hist[2].kv # kv
    /\ kv = hist[1].kv

\* C17: the exchange rename of (P1, n1) -> A and (P2, n2) -> B commits exactly:
\* A.parent_ino = P2, A.name = n2, B.parent_ino = P1, B.name = n1, the entry
\* n1 of P1 points at B and the entry n2 of P2 points at A, and nothing else
\* in the store changes; an exchange that fails leaves the store as it was.
C17_ExchangeCommitsExactly ==
    [][(res'.op = "rename" /\ res'.n = 2)
         => IF res'.err # "ok" THEN kv' = kv
            ELSE LET P1 == res'.arg[1]
                     n1 == res'.arg[2]
                     P2 == res'.arg[3]
                     n2 == res'.arg[4]
                     A == get_entry(kv[P1], n1).ino
                     B == get_entry(kv[P2], n2).ino
                 IN  /\ kv'[A].parent_ino = P2 /\ kv'[A].name = n2
                     /\ kv'[B].parent_ino = P1 /\ kv'[B].name = n1
                     /\ get_entry(kv'[P1], n1).ino = B
                     /\ get_entry(kv'[P2], n2).ino = A
                     /\ \A d \in {P1, P2} : \A n \in Names :
                           <<d, n>> \notin {<<P1, n1>>, <<P2, n2>>}
                              => get_entry(kv'[d], n) = get_entry(kv[d], n)
                     /\ \A i \in Inums \ {A, B, P1, P2} : kv'[i] = kv[i]
                     /\ \A i \in {A, B} \ {P1, P2} :
                           kv'[i] = [kv[i] EXCEPT !.parent_ino = kv'[i].parent_ino,
                                                  !.name = kv'[i].name]]_vars

C17_Witness ==
    /\ RenameOk(res, 2)
    /\ res.arg[1] # res.arg[3]
    /\ kv # hist[2].kv
    /\ get_entry(kv[res.arg[3]], res.arg[4]).ino = res.ino
    /\ kv[res.ino].parent_ino = res.arg[3]

\* The last request is a served exchange rename between two different
\* directories that each held one entry, the exchanged one.
ExchangeAcrossSingletons ==
    /\ RenameOk(res, 2)
    /\ res.arg[1] # res.arg[3]
    /\ \A n \in Names \ {res.arg[2]} : get_entry(hist[2].kv[res.arg[1]], n) = NoEntry
    /\ \A n \in Names \ {res.arg[4]} : get_entry(hist[2].kv[res.arg[3]], n) = NoEntry

\* The entries of directory d in store s are exactly {name -> ino}.
HoldsExactly(s, d, name, ino) ==
    \A n \in Names :
        get_entry(s[d], n).ino = (IF n = name THEN ino ELSE 0)

\* C18 as stated: after the exchange rename of old = (P1, n1) -> A with
\* new = (P2, n2) -> B across two directories that each hold only that entry,
\* P1 contains exactly {n2 -> B} and P2 contains exactly {n1 -> A}.
C18_ExchangeSwapsNames ==
    ExchangeAcrossSingletons
       => LET A == get_entry(hist[2].kv[res.arg[1]], res.arg[2]).ino
              B == get_entry(hist[2].kv[res.arg[3]], res.arg[4]).ino
          IN  /\ HoldsExactly(kv, res.arg[1], res.arg[4], B)
              /\ HoldsExactly(kv, res.arg[3], res.arg[2], A)

\* C18, amended: after that exchange P1 contains exactly {n1 -> B} and P2
\* contains exactly {n2 -> A}: each directory keeps its name and the two
\* names exchange their inodes.
C18_ExchangeSwapsInodes ==
    ExchangeAcrossSingletons
       => LET A == get_entry(hist[2].kv[res.arg[1]], res.arg[2]).ino
              B == get_entry(hist[2].kv[res.arg[3]], res.arg[4]).ino
          IN  /\ HoldsExactly(kv, res.arg[1], res.arg[2], B)
              /\ HoldsExactly(kv, res.arg[3], res.arg[4], A)

\* Scenario S6: directory 2 holds x -> 5 and directory 3 holds y -> 4.
C18_Witness ==
    /\ ExchangeAcrossSingletons
    /\ res.arg = <<2, 1, 3, 2>>
    /\ HoldsExactly(kv, 2, 1, 5)
    /\ HoldsExactly(kv, 3, 2, 4)

\* C19: a rename whose flags hold both RENAME_NOREPLACE and RENAME_EXCHANGE
\* (flags = 3) returns EINVAL and writes nothing to the KV store.
C19_BothFlagsIsEINVAL ==
    [][(res'.op = "rename" /\ res'.n = 3)
         => (res'.err = "EINVAL" /\ kv' = kv)]_vars

\* C20: a rename with RENAME_NOREPLACE (flags = 1) whose destination entry
\* exists fails with EEXIST and leaves every inode record and directory
\* unchanged: the destination is neither unlinked nor deferred-deleted.
C20_NoReplaceIsEEXIST ==
    [][(res'.op = "rename" /\ res'.n = 1)
         => \A p \in Inums, n \in Names, q \in Inums, m \in Names :
              (EntryIno(q, m) # 0 /\ Rename(p, n, q, m, 1))
                 => (res'.err = "EEXIST" /\ kv' = kv /\ unlinked' = unlinked)]_vars

C20_Witness ==
    /\ res.op = "rename" /\ res.n = 1 /\ res.err = "EEXIST"
    /\ kv = hist[2].kv
    /\ \E q \in Inums, m \in Names : kv[q] # NoNode /\ get_entry(kv[q], m) # NoEntry

----------------------------------------------------------------------------
(* SpecSticky: unlink, rmdir and rename requests of several callers, one  *)
(* at a time, on a tree whose directories may carry the sticky bit.       *)

\* The store after creation requests <<parent, name, kind, uid, sticky>>.
RECURSIVE BuildAs(_, _, _)
BuildAs(s, c, reqs) ==
    IF reqs = <<>> THEN [kv |-> s, counter |-> c]
    ELSE LET r == mknod(s, c, reqs[1][1], reqs[1][2], reqs[1][3], reqs[1][4], reqs[1][5])
         IN  BuildAs(r.kv, r.counter, Tail(reqs))

\* Directory d (ino 2) of user 1000 in the root, file x (ino 3) of user 1001
\* in the root, files of users 1001 and 1002 (ino 4, 5) in d.
TreeSticky(sticky) ==
    << <<1, 1, "dir", 1000, sticky>>, <<1, 2, "file", 1001, FALSE>>,
       <<2, 1, "file", 1001, FALSE>>, <<2, 2, "file", 1002, FALSE>> >>

\* Scenario S3: the root has mode 01777 and owner 0.
set_sticky(node, sticky) == [node EXCEPT !.sticky = sticky]

InitSticky ==
    /\ \E root_sticky \in BOOLEAN, dir_sticky \in BOOLEAN :
         LET root == [i \in Inums |->
                        IF i = FUSE_ROOT_ID
                        THEN set_sticky(open_root_node(1), root_sticky)
                        ELSE NoNode]
             b == BuildAs(root, FirstInum, TreeSticky(dir_sticky))
         IN  /\ kv = b.kv
             /\ counter = b.counter
    /\ started = TRUE
    /\ res = [NoReply EXCEPT !.seq = MaxRequests - StickyRequests]
    /\ unlinked = {}
    /\ rootWrites = 1
    /\ pc = [p \in Procs |-> "idle"]
    /\ loc = [p \in Procs |-> NoNode]
    /\ hist = NoHist
    /\ refs = NoRefs

NextSticky ==
    \/ \E u \in Uids, p \in Inums, n \in Names : UnlinkAs(ReqContext(u), p, n)
    \/ \E u \in Uids, p \in Inums, n \in Names : RmdirAs(ReqContext(u), p, n)
    \/ \E u \in Uids, p \in Inums, n \in Names, q \in Inums, m \in Names, f \in RenameFlags :
           RenameAs(ReqContext(u), p, n, q, m, f)

SpecSticky == InitSticky /\ [][NextSticky]_vars

----------------------------------------------------------------------------
(* Properties of SpecSticky *)

\* Directory record parent_node has the sticky bit and the caller uid is
\* neither the superuser, nor its owner, nor the owner of the entry.
Denies(uid, parent_node, entry) ==
    /\ parent_node.sticky
    /\ uid # SuperUser
    /\ uid # parent_node.uid
    /\ uid # entry.uid

\* The entry under name in directory parent of the current store.
EntryOf(parent, name) == get_entry(kv[parent], name)

\* C22: in every store the requests reach, unlink, rmdir, standard rename
\* and exchange rename of an existing entry fail with EACCES exactly when
\* the sticky rule denies the caller on the source entry or on the
\* destination entry when there is one, and a request that fails with EACCES
\* leaves the store as it was.
C22_StickyBitDenies ==
    /\ \A u \in Uids, p \in Inums, n \in Names :
         LiveDir(p) /\ EntryIno(p, n) # 0
         => LET r == IF EntryKind(p, n) = "dir"
                     THEN remove_node_helper(ReqContext(u), kv, p, n, "dir")
                     ELSE unlink(ReqContext(u), kv, p, n)
            IN  /\ r.err = "EACCES" <=> Denies(u, kv[p], EntryOf(p, n))
                /\ r.err = "EACCES" => r.kv = kv
    /\ \A u \in Uids, p \in Inums, n \in Names, q \in Inums, m \in Names, f \in RenameFlags :
         LiveDir(p) /\ LiveDir(q) /\ EntryIno(p, n) # 0
         => LET r == rename(ReqContext(u), kv, p, n, q, m, f)
            IN  /\ r.err = "EACCES"
                   <=> \/ Denies(u, kv[p], EntryOf(p, n))
                       \/ /\ EntryIno(q, m) # 0
                          /\ Denies(u, kv[q], EntryOf(q, m))
                /\ r.err = "EACCES" => r.kv = kv

\* A rename was refused with EACCES in a sticky directory.
C22_Witness ==
    /\ res.op = "rename" /\ res.err = "EACCES"
    /\ \E d \in Inums : kv[d] # NoNode /\ kv[d].sticky

----------------------------------------------------------------------------
(* Transactions: a commit fails with a conflict when a key the transaction *)
(* read was modified after the read; retry_txn! then runs the body again,  *)
(* at most TXN_RETRY_LIMIT times.                                          *)

txn_commit_ok(s, key, read_value) == s[key] = read_value

\* A runner that never gives up.
retry_txn_next_forever(attempts) == "retry"

retry_txn_next(attempts) == IF attempts < TXN_RETRY_LIMIT THEN "retry" ELSE "failed"

----------------------------------------------------------------------------
(* SpecBoot: NumNodes services start on one KV store, each running the     *)
(* bootstrap transaction of S3MetaData::new, and restart.                  *)

BootLocal(prev, attempts, restarts) ==
    [prev |-> prev, attempts |-> attempts, restarts |-> restarts]

InitBoot ==
    /\ kv = [i \in Inums |-> NoNode]
    /\ counter = FirstInum
    /\ started = FALSE
    /\ res = NoReply
    /\ unlinked = {}
    /\ rootWrites = 0
    /\ pc = [n \in Nodes |-> "down"]
    /\ loc = [n \in Nodes |-> BootLocal(NoNode, 0, 0)]
    /\ hist = NoHist
    /\ refs = NoRefs

\* new_meta_txn and try_get_inode_from_txn(FUSE_ROOT_ID)
BootTxnGet(n) ==
    /\ pc[n] \in {"down", "retry"}
    /\ pc' = [pc EXCEPT ![n] = "got"]
    /\ loc' = [loc EXCEPT ![n] = BootLocal(kv[FUSE_ROOT_ID], @.attempts + 1, @.restarts)]
    /\ UNCHANGED <<refs, kv, counter, started, res, unlinked, rootWrites, hist>>

\* a previous root node was seen: (Ok(true), ()) without a write
BootSkip(n) ==
    /\ pc[n] = "got"
    /\ \E lc \in RootLookupCounts : ~new_body(loc[n].prev, lc).write
    /\ pc' = [pc EXCEPT ![n] = "up"]
    /\ UNCHANGED <<refs, kv, counter, started, res, unlinked, rootWrites, loc, hist>>

\* txn.set(INum2Node(FUSE_ROOT_ID), root) and a commit that succeeds
BootCommit(n) ==
    /\ pc[n] = "got"
    /\ txn_commit_ok(kv, FUSE_ROOT_ID, loc[n].prev)
    /\ \E lc \in RootLookupCounts :
         /\ new_body(loc[n].prev, lc).write
         /\ kv' = [kv EXCEPT ![FUSE_ROOT_ID] = new_body(loc[n].prev, lc).node]
    /\ rootWrites' = rootWrites + 1
    /\ pc' = [pc EXCEPT ![n] = "up"]
    /\ UNCHANGED <<refs, counter, started, res, unlinked, loc, hist>>

\* txn.set and a commit that conflicts: the body runs again
BootConflict(n) ==
    /\ pc[n] = "got"
    /\ \E lc \in RootLookupCounts : new_body(loc[n].prev, lc).write
    /\ ~txn_commit_ok(kv, FUSE_ROOT_ID, loc[n].prev)
    /\ pc' = [pc EXCEPT ![n] = retry_txn_next(loc[n].attempts)]
    /\ UNCHANGED <<refs, kv, counter, started, res, unlinked, rootWrites, loc, hist>>

\* the service stops and is started again
BootRestart(n) ==
    /\ pc[n] = "up"
    /\ loc[n].restarts < MaxRestarts
    /\ pc' = [pc EXCEPT ![n] = "down"]
    /\ loc' = [loc EXCEPT ![n] = BootLocal(NoNode, 0, @.restarts + 1)]
    /\ UNCHANGED <<refs, kv, counter, started, res, unlinked, rootWrites, hist>>

NextBoot ==
    \/ \E n \in Nodes : BootTxnGet(n)
    \/ \E n \in Nodes : BootSkip(n)
    \/ \E n \in Nodes : BootCommit(n)
    \/ \E n \in Nodes : BootConflict(n)
    \/ \E n \in Nodes : BootRestart(n)

SpecBoot == InitBoot /\ [][NextBoot]_vars

\* C8: a bootstrap that finds INum2Node(1) commits no write and leaves the
\* store unchanged; from a fresh store, any number of bootstraps (restarts,
\* or nodes bootstrapping concurrently) commit the root record exactly once.
C8_BootstrapIdempotent ==
    [][/\ kv[FUSE_ROOT_ID] # NoNode => (kv' = kv /\ rootWrites' = rootWrites)
       /\ rootWrites' <= 1
       /\ (\E n \in Nodes : pc'[n] = "up")
             => (rootWrites' = 1 /\ kv'[FUSE_ROOT_ID] \in {open_root_node(lc) : lc \in RootLookupCounts})]_vars

\* A node restarted and bootstrapped again on the existing root, and another
\* node came up on its second attempt, after its first commit conflicted.
C8_Witness ==
    \E n, m \in Nodes :
        /\ n # m
        /\ pc[n] = "up" /\ loc[n].restarts >= 1
        /\ pc[m] = "up" /\ loc[m].attempts = 2
        /\ rootWrites = 1

----------------------------------------------------------------------------
(* SpecMknod: NumProcs mknod requests on the root directory, interleaved   *)
(* at every KV call of the handler.                                        *)

MknodLocal(name, kind, parent_node, child, new_inum, err) ==
    [name |-> name, kind |-> kind, parent_node |-> parent_node,
     child |-> child, new_inum |-> new_inum, err |-> err]

InitMknod ==
    /\ \E lc \in RootLookupCounts :
         kv = [i \in Inums |-> IF i = FUSE_ROOT_ID THEN open_root_node(lc) ELSE NoNode]
    /\ counter = FirstInum
    /\ started = TRUE
    /\ res = NoReply
    /\ unlinked = {}
    /\ rootWrites = 1
    /\ pc = [p \in Procs |-> "idle"]
    /\ loc = [p \in Procs |-> MknodLocal(0, "none", NoNode, NoNode, 0, "none")]
    /\ hist = NoHist
    /\ refs = NoRefs

\* get_node_from_kv_engine(parent) and check_name_availability
MknodGetParent(p, name, kind) ==
    /\ pc[p] = "idle"
    /\ LET parent_node == get_node_from_kv_engine(kv, FUSE_ROOT_ID)
       IN  IF parent_node = NoNode
           THEN /\ pc' = [pc EXCEPT ![p] = "done"]
                /\ loc' = [loc EXCEPT ![p] =
                             MknodLocal(name, kind, NoNode, NoNode, 0, "InconsistentFS")]
           ELSE IF ~check_name_availability(parent_node, name)
           THEN /\ pc' = [pc EXCEPT ![p] = "done"]
                /\ loc' = [loc EXCEPT ![p] =
                             MknodLocal(name, kind, parent_node, NoNode, 0, "EEXIST")]
           ELSE /\ pc' = [pc EXCEPT ![p] = "alloc_inum"]
                /\ loc' = [loc EXCEPT ![p] =
                             MknodLocal(name, kind, parent_node, NoNode, 0, "none")]
    /\ UNCHANGED <<refs, kv, counter, started, res, unlinked, rootWrites, hist>>

\* alloc_inum and create_child_node, which adds the entry to the parent in memory
MknodAllocInum(p) ==
    /\ pc[p] = "alloc_inum"
    /\ counter <= MaxIno
    /\ counter' = alloc_inum(counter).counter
    /\ LET new_inum == alloc_inum(counter).inum
           made == create_child_node(loc[p].parent_node, FUSE_ROOT_ID,
                                     loc[p].name, loc[p].kind, new_inum,
                                     Owner.uid, FALSE)
       IN  loc' = [loc EXCEPT ![p] =
                     MknodLocal(@.name, @.kind, made.parent, made.child, new_inum, "none")]
    /\ pc' = [pc EXCEPT ![p] = "set_child"]
    /\ UNCHANGED <<refs, kv, started, res, unlinked, rootWrites, hist>>

\* set_node_to_kv_engine(new_ino, new_node)
MknodSetChild(p) ==
    /\ pc[p] = "set_child"
    /\ kv' = set_node_to_kv_engine(kv, loc[p].new_inum, loc[p].child)
    /\ pc' = [pc EXCEPT ![p] = "set_parent"]
    /\ UNCHANGED <<refs, counter, started, res, unlinked, rootWrites, loc, hist>>

\* set_node_to_kv_engine(parent_ino, parent_node), then the reply
MknodSetParent(p) ==
    /\ pc[p] = "set_parent"
    /\ kv' = set_node_to_kv_engine(kv, FUSE_ROOT_ID, loc[p].parent_node)
    /\ pc' = [pc EXCEPT ![p] = "done"]
    /\ loc' = [loc EXCEPT ![p].err = "ok"]
    /\ UNCHANGED <<refs, counter, started, res, unlinked, rootWrites, hist>>

NextMknod ==
    \/ \E p \in Procs, n \in Names, k \in {"file", "dir"} : MknodGetParent(p, n, k)
    \/ \E p \in Procs : MknodAllocInum(p)
    \/ \E p \in Procs : MknodSetChild(p)
    \/ \E p \in Procs : MknodSetParent(p)

SpecMknod == InitMknod /\ [][NextMknod]_vars

ChildRecords == {i \in Inums \ {FUSE_ROOT_ID} : kv[i] # NoNode}

\* C1: the KV writes of one request become visible together: no state of
\* the store holds a child inode record whose parent directory has no entry
\* for it.
C1_WritesVisibleAtomically ==
    \A i \in ChildRecords :
        /\ kv[kv[i].parent_ino] # NoNode
        /\ kv[kv[i].parent_ino].dir_data[kv[i].name].ino = i

\* C5: two concurrent mknod(p, n) with the same name end with exactly one
\* success and one EEXIST, one entry n in the parent and one new record.
C5_SameNameOneWinner ==
    \A p, q \in Procs :
        (p # q /\ pc[p] = "done" /\ pc[q] = "done" /\ loc[p].name = loc[q].name)
           => /\ {loc[p].err, loc[q].err} = {"ok", "EEXIST"}
              /\ kv[FUSE_ROOT_ID].dir_data[loc[p].name] # NoEntry
              /\ Cardinality(ChildRecords) = 1

\* C6: two concurrent mknod on the same parent with different names both
\* succeed, and afterwards the parent record holds both entries.
C6_DifferentNamesBothKept ==
    \A p, q \in Procs :
        (p # q /\ pc[p] = "done" /\ pc[q] = "done" /\ loc[p].name # loc[q].name)
           => /\ loc[p].err = "ok" /\ loc[q].err = "ok"
              /\ kv[FUSE_ROOT_ID].dir_data[loc[p].name].ino = loc[p].new_inum
              /\ kv[FUSE_ROOT_ID].dir_data[loc[q].name].ino = loc[q].new_inum

----------------------------------------------------------------------------
(* SpecTxn: one client runs the transactional handlers forget, open and   *)
(* release on a file, one KV call after the other, while whole lookup and *)
(* forget requests of other clients are served between its steps, without *)
(* limit.  Each such request changes the record the transaction read and  *)
(* makes its commit conflict.  SpecTxnLive adds that a handler which was  *)
(* started is run to its end.                                             *)

\* The tree: file x (ino FirstInum) of Owner in the root.
TreeTxn == << <<FUSE_ROOT_ID, 1, "file">> >>

TxnClient == 1
PlainClients == {2, 3}
Clients == {TxnClient} \cup PlainClients

TxnOps == {"forget", "open", "release"}

\* What one run of a transaction body leaves: the write it staged and the
\* calls it made outside the KV store.
NoStage == [kind |-> "none", node |-> NoNode]
StageSet(node) == [kind |-> "set", node |-> node]
StageDelete == [kind |-> "delete", node |-> NoNode]

NoEffects == {}

NoLocal ==
    [op |-> "none", ino |-> 0, n |-> 0, uid |-> 0, attempts |-> 0,
     read |-> NoNode, staged |-> NoStage, effects |-> NoEffects]

\* Local variables that lose the count of the attempts.
TxnLocal_uncounted(op, ino, n, uid, attempts, read, staged, effects) ==
    [op |-> op, ino |-> ino, n |-> n, uid |-> uid, attempts |-> 0,
     read |-> read, staged |-> staged, effects |-> effects]

TxnLocal(op, ino, n, uid, attempts, read, staged, effects) ==
    [op |-> op, ino |-> ino, n |-> n, uid |-> uid, attempts |-> attempts,
     read |-> read, staged |-> staged, effects |-> effects]

\* Requests that were started and not yet answered.
InFlight == Cardinality({p \in Clients : pc[p] # "idle"})

MayStart == res.seq + InFlight < MaxRequests

\* check_perm over the mode of the node: the nodes carry mode 0600 beside
\* the sticky bit, so the owner and the superuser pass.
open_pre_check(node, context) ==
    IF context.uid = SuperUser \/ context.uid = node.uid THEN "ok" ELSE "EACCES"

\* A body that stages nothing and never fails.
txn_body_swallows(op, read, n, context) ==
    [err |-> "ok", staged |-> NoStage, effects |-> NoEffects]

\* One run of the body of forget, open or release on the record read:
\* the error that ends it, or the write it stages and its outside calls.
\* delete_check drops the file cache when it answers true, and close flushes
\* the file, both inside the body.
txn_body(op, read, n, context) ==
    IF read = NoNode
    THEN [err |-> "InconsistentFS", staged |-> NoStage, effects |-> NoEffects]
    ELSE IF op = "forget"
    THEN LET inode == dec_lookup_count_by(read, n)
         IN  IF delete_check(inode)
             THEN [err |-> "ok", staged |-> StageDelete,
                   effects |-> IF inode.kind = "file" THEN {"remove_file_cache"} ELSE NoEffects]
             ELSE [err |-> "ok", staged |-> StageSet(inode), effects |-> NoEffects]
    ELSE IF op = "open"
    THEN IF open_pre_check(read, context) # "ok"
         THEN [err |-> "EACCES", staged |-> NoStage, effects |-> NoEffects]
         ELSE [err |-> "ok", staged |-> StageSet(dup_fd(read)), effects |-> NoEffects]
    ELSE [err |-> "ok", staged |-> StageSet(close(read)), effects |-> {"flush"}]

\* The store after the commit of a staged write.
txn_apply(s, key, staged) ==
    IF staged.kind = "set" THEN [s EXCEPT ![key] = staged.node]
    ELSE IF staged.kind = "delete" THEN [s EXCEPT ![key] = NoNode]
    ELSE s

\* The references the kernel holds once the request was answered: a handle
\* more after an open that succeeded, one less after a release, nlookup
\* lookups less after a forget.
refs_after(r, op, ino, n, err) ==
    IF op = "open" /\ err = "ok" THEN [r EXCEPT ![ino].open = @ + 1]
    ELSE IF op = "release" THEN [r EXCEPT ![ino].open = Sat(@ - 1)]
    ELSE IF op = "forget" THEN [r EXCEPT ![ino].lookup = Sat(@ - n)]
    ELSE IF op = "lookup" /\ err = "ok" THEN [r EXCEPT ![ino].lookup = @ + 1]
    ELSE r

InitTxn ==
    /\ LET root == [i \in Inums |-> IF i = FUSE_ROOT_ID THEN open_root_node(1) ELSE NoNode]
           b == Build(root, FirstInum, TreeTxn)
       IN  /\ kv = b.kv
           /\ counter = b.counter
    /\ started = TRUE
    /\ res = [NoReply EXCEPT !.seq = MaxRequests - TxnRequests]
    /\ unlinked = {}
    /\ rootWrites = 1
    /\ pc = [p \in Clients |-> "idle"]
    /\ loc = [p \in Clients |-> NoLocal]
    /\ hist = NoHist
    /\ refs = [NoRefs EXCEPT ![FirstInum].lookup = 1]

\* The kernel sends forget, open and release for a file it holds, release
\* for a handle it holds; open comes from the owner or from another user.
TxnBegin(p, op, ino, n, uid) ==
    /\ pc[p] = "idle" /\ MayStart
    /\ Held(ino) /\ kv[ino].kind = "file"
    /\ op = "forget" => n \in 1..MaxNLookup
    /\ op # "forget" => n = 0
    /\ op = "open" => refs[ino].open < MaxCount
    /\ op = "release" => refs[ino].open > 0
    /\ op # "open" => uid = Owner.uid
    /\ pc' = [pc EXCEPT ![p] = "body"]
    /\ loc' = [loc EXCEPT ![p] = TxnLocal(op, ino, n, uid, 0, NoNode, NoStage, NoEffects)]
    /\ UNCHANGED <<kv, counter, started, res, unlinked, rootWrites, hist, refs>>

\* new_meta_txn, get_inode_from_txn and the body up to the commit; an error
\* of the body leaves retry_txn! through `?`.
TxnBody(p) ==
    /\ pc[p] = "body"
    /\ LET l == loc[p]
           b == txn_body(l.op, kv[l.ino], l.n, ReqContext(l.uid))
       IN  IF b.err # "ok"
           THEN /\ pc' = [pc EXCEPT ![p] = "idle"]
                /\ loc' = [loc EXCEPT ![p] = NoLocal]
                /\ res' = Done(l.op, l.ino, l.n, b.err)
                /\ refs' = refs_after(refs, l.op, l.ino, l.n, b.err)
           ELSE /\ pc' = [pc EXCEPT ![p] = "commit"]
                /\ loc' = [loc EXCEPT ![p] =
                             TxnLocal(l.op, l.ino, l.n, l.uid, l.attempts + 1,
                                      kv[l.ino], b.staged, l.effects \cup b.effects)]
                /\ UNCHANGED <<res, refs>>
    /\ UNCHANGED <<kv, counter, started, unlinked, rootWrites, hist>>

\* txn.commit() answers Ok(true): the staged write reaches the store.
TxnCommit(p) ==
    /\ pc[p] = "commit"
    /\ txn_commit_ok(kv, loc[p].ino, loc[p].read)
    /\ kv' = txn_apply(kv, loc[p].ino, loc[p].staged)
    /\ pc' = [pc EXCEPT ![p] = "idle"]
    /\ loc' = [loc EXCEPT ![p] = NoLocal]
    /\ res' = Done(loc[p].op, loc[p].ino, loc[p].n, "ok")
    /\ refs' = refs_after(refs, loc[p].op, loc[p].ino, loc[p].n, "ok")
    /\ UNCHANGED <<counter, started, unlinked, rootWrites, hist>>

\* txn.commit() answers Ok(false): the body runs again, or the request
\* fails once the attempts are used up.
TxnConflict(p) ==
    /\ pc[p] = "commit"
    /\ ~txn_commit_ok(kv, loc[p].ino, loc[p].read)
    /\ IF retry_txn_next(loc[p].attempts) = "retry"
       THEN /\ pc' = [pc EXCEPT ![p] = "body"]
            /\ loc' = [loc EXCEPT ![p].staged = NoStage]
            /\ UNCHANGED <<res, refs>>
       ELSE /\ pc' = [pc EXCEPT ![p] = "idle"]
            /\ loc' = [loc EXCEPT ![p] = NoLocal]
            /\ res' = Done(loc[p].op, loc[p].ino, loc[p].n, "TxnRetryExceeded")
            /\ refs' = refs_after(refs, loc[p].op, loc[p].ino, loc[p].n, "TxnRetryExceeded")
    /\ UNCHANGED <<kv, counter, started, unlinked, rootWrites, hist>>

\* A whole lookup or forget request of another client that changes the
\* store; its reply goes to that client and is not recorded.
OtherLookup(parent, name) ==
    /\ LiveDir(parent)
    /\ LET r == lookup_helper(kv, parent, name)
       IN  /\ r.err = "ok" /\ kv[r.ino].lookup_count < MaxCount
           /\ kv' = r.kv
    /\ UNCHANGED <<counter, started, res, unlinked, rootWrites, pc, loc, hist, refs>>

OtherForget(ino, nlookup) ==
    /\ Held(ino)
    /\ kv' = forget(kv, ino, nlookup).kv
    /\ kv' # kv
    /\ UNCHANGED <<counter, started, res, unlinked, rootWrites, pc, loc, hist, refs>>

NextTxn ==
    \/ \E op \in TxnOps, i \in Inums, n \in 0..MaxNLookup, u \in {Owner.uid, 1001} :
           TxnBegin(TxnClient, op, i, n, u)
    \/ TxnBody(TxnClient)
    \/ TxnCommit(TxnClient)
    \/ TxnConflict(TxnClient)
    \/ \E p \in Inums, n \in Names : OtherLookup(p, n)
    \/ \E i \in Inums, n \in 1..MaxNLookup : OtherForget(i, n)

SpecTxn == InitTxn /\ [][NextTxn]_vars

\* The task of a request is polled until it returns: each KV call of the
\* transaction is answered and the handler goes on.
SpecTxnLive ==
    /\ SpecTxn
    /\ WF_vars(TxnBody(TxnClient))
    /\ WF_vars(TxnCommit(TxnClient) \/ TxnConflict(TxnClient))

----------------------------------------------------------------------------
(* SpecCount: the transactional client, and two clients that run the      *)
(* handlers without a transaction, lookup and write, each of them a       *)
(* get_node_from_kv_engine followed by a set_node_to_kv_engine.  All      *)
(* clients belong to one kernel, whose references refs records.           *)

\* write_file changes the data and the size of the file, which the records
\* of the model do not carry; the counts are written back as they were read.
write_file(node) == node

InitCount ==
    /\ LET root == [i \in Inums |-> IF i = FUSE_ROOT_ID THEN open_root_node(1) ELSE NoNode]
           b == Build(root, FirstInum, TreeTxn)
       IN  /\ kv = b.kv
           /\ counter = b.counter
    /\ started = TRUE
    /\ res = [NoReply EXCEPT !.seq = MaxRequests - CountRequests]
    /\ unlinked = {}
    /\ rootWrites = 1
    /\ pc = [p \in Clients |-> "idle"]
    /\ loc = [p \in Clients |-> NoLocal]
    /\ hist = NoHist
    /\ refs = [NoRefs EXCEPT ![FirstInum].lookup = 1]

\* lookup_pre_check and get_node_from_kv_engine(child_ino)
LookupGet(p, parent, name) ==
    /\ pc[p] = "idle" /\ MayStart
    /\ LiveDir(parent)
    /\ LET pre == lookup_pre_check(kv, parent, name)
       IN  IF pre.err # "ok" \/ kv[pre.ino] = NoNode
           THEN /\ res' = Done("lookup", pre.ino, 0,
                               IF pre.err # "ok" THEN pre.err ELSE "InconsistentFS")
                /\ UNCHANGED <<pc, loc>>
           ELSE /\ refs[pre.ino].lookup < MaxCount
                /\ pc' = [pc EXCEPT ![p] = "set"]
                /\ loc' = [loc EXCEPT ![p] =
                             TxnLocal("lookup", pre.ino, 0, Owner.uid, 0, kv[pre.ino],
                                      StageSet(lookup_attr(kv[pre.ino])), NoEffects)]
                /\ UNCHANGED res
    /\ UNCHANGED <<kv, counter, started, unlinked, rootWrites, hist, refs>>

\* set_node_to_kv_engine(child_ino, child_node) and the reply
LookupSet(p) ==
    /\ pc[p] = "set" /\ loc[p].op = "lookup"
    /\ kv' = set_node_to_kv_engine(kv, loc[p].ino, loc[p].staged.node)
    /\ pc' = [pc EXCEPT ![p] = "idle"]
    /\ loc' = [loc EXCEPT ![p] = NoLocal]
    /\ res' = Done("lookup", loc[p].ino, 0, "ok")
    /\ refs' = refs_after(refs, "lookup", loc[p].ino, 0, "ok")
    /\ UNCHANGED <<counter, started, unlinked, rootWrites, hist>>

\* The kernel writes through a handle it holds.  get_node_from_kv_engine(ino)
\* and write_file.
WriteGet(p, ino) ==
    /\ pc[p] = "idle" /\ MayStart
    /\ Held(ino) /\ kv[ino].kind = "file" /\ refs[ino].open > 0
    /\ pc' = [pc EXCEPT ![p] = "set"]
    /\ loc' = [loc EXCEPT ![p] =
                 TxnLocal("write", ino, 0, Owner.uid, 0, kv[ino],
                          StageSet(write_file(kv[ino])), NoEffects)]
    /\ UNCHANGED <<kv, counter, started, res, unlinked, rootWrites, hist, refs>>

\* set_node_to_kv_engine(ino, inode), then invalidate_remote(..)?, which
\* the other nodes answer or not; n counts the invalidations that failed.
WriteSet(p, invalidated) ==
    /\ pc[p] = "set" /\ loc[p].op = "write"
    /\ kv' = set_node_to_kv_engine(kv, loc[p].ino, loc[p].staged.node)
    /\ pc' = [pc EXCEPT ![p] = "idle"]
    /\ loc' = [loc EXCEPT ![p] = NoLocal]
    /\ res' = IF invalidated
              THEN Done("write", loc[p].ino, 0, "ok")
              ELSE Done("write", loc[p].ino, 1, "EIO")
    /\ UNCHANGED <<counter, started, unlinked, rootWrites, hist, refs>>

NextCount ==
    \/ \E op \in TxnOps, i \in Inums, n \in 0..MaxNLookup, u \in {Owner.uid, 1001} :
           TxnBegin(TxnClient, op, i, n, u)
    \/ TxnBody(TxnClient)
    \/ TxnCommit(TxnClient)
    \/ TxnConflict(TxnClient)
    \/ \E p \in PlainClients, d \in Inums, n \in Names : LookupGet(p, d, n)
    \/ \E p \in PlainClients : LookupSet(p)
    \/ \E p \in PlainClients, i \in Inums : WriteGet(p, i)
    \/ \E p \in PlainClients, ok \in BOOLEAN : WriteSet(p, ok)

SpecCount == InitCount /\ [][NextCount]_vars

----------------------------------------------------------------------------
(* Properties of SpecCount *)

AllIdle == \A p \in Clients : pc[p] = "idle"

\* C26: once every request was answered, the stored lookup_count of an
\* inode is the reference of its creation plus the lookups that succeeded
\* minus the amounts forgotten, saturating at 0.
C26_LookupCountExact ==
    AllIdle => \A i \in Inums :
                 kv[i] # NoNode /\ kv[i].kind = "file"
                 => kv[i].lookup_count = refs[i].lookup

\* C27: once every request was answered, the stored open_count of an inode
\* is the number of opens that succeeded minus the number of releases.
C27_OpenCountExact ==
    AllIdle => \A i \in Inums :
                 kv[i] # NoNode /\ kv[i].kind = "file"
                 => kv[i].open_count = refs[i].open

\* C28: in every state lookup_count >= 0 and open_count >= 0 for every inode
\* record.
C28_CountsNonNegative ==
    \A i \in Inums :
        kv[i] # NoNode => kv[i].lookup_count >= 0 /\ kv[i].open_count >= 0

\* C30: a write whose data and record were stored is answered with success,
\* whether the invalidation of the other nodes' caches went through or not.
C30_WriteSurvivesInvalidationFailure ==
    res.op = "write" => res.err = "ok"

----------------------------------------------------------------------------
(* Properties of SpecTxn *)

\* C23: a transactional request runs its body at most TXN_RETRY_LIMIT (5)
\* times: the body is never about to run again once 5 runs ended in a
\* conflict, and the request has failed instead.
C23_BodyRunsAtMostLimit ==
    /\ loc[TxnClient].attempts <= TXN_RETRY_LIMIT
    /\ pc[TxnClient] = "body" => loc[TxnClient].attempts < TXN_RETRY_LIMIT

\* A request failed after the fifth conflict.
C23_Witness ==
    /\ res.err = "TxnRetryExceeded"
    /\ pc[TxnClient] = "idle"

\* C24: whatever conflicts the other clients cause, a transactional request
\* that was started is answered, with success or with an error; and a step
\* of the request changes the store only when it is the commit that
\* succeeds, so a request that failed left none of its staged writes.
C24_TxnTerminates ==
    /\ (pc[TxnClient] # "idle") ~> (pc[TxnClient] = "idle")
    /\ [][(pc'[TxnClient] # pc[TxnClient] /\ kv' # kv)
            => (pc'[TxnClient] = "idle" /\ res'.seq = res.seq + 1 /\ res'.err = "ok")]_vars

\* A release failed after its attempts were used up.
C24_Witness ==
    /\ res.op = "release" /\ res.err = "TxnRetryExceeded"
    /\ pc[TxnClient] = "idle"

\* The request of the transactional client is about to run its body on a
\* record that is missing, or is an open by a user the mode does not admit.
BodyFails ==
    /\ pc[TxnClient] = "body"
    /\ \/ kv[loc[TxnClient].ino] = NoNode
       \/ /\ loc[TxnClient].op = "open"
          /\ loc[TxnClient].uid \notin {SuperUser, kv[loc[TxnClient].ino].uid}

BodyError == IF kv[loc[TxnClient].ino] = NoNode THEN "InconsistentFS" ELSE "EACCES"

C29_EffectsOnlyAfterCommit ==
    (/\ pc[TxnClient] = "commit"
     /\ ~txn_commit_ok(kv, loc[TxnClient].ino, loc[TxnClient].read))
        => loc[TxnClient].effects = NoEffects

----------------------------------------------------------------------------
(* SpecReaddir: the kernel lists a directory with successive readdir      *)
(* calls, each resumed from the offset the last emitted entry carried.    *)
(* The reply buffer of a call holds cap entries; reply.add drops what     *)
(* comes after it is full.                                                *)

\* The entries of a directory in the order of its BTreeMap, for the names
\* of the set present: <<name, entry>> by ascending name.
RECURSIVE ordered_entries(_, _)
ordered_entries(present, from) ==
    IF from > MaxEntries THEN <<>>
    ELSE IF from \in present
         THEN << <<from, DirEntry(FirstInum + from, "file", Owner.uid)>> >>
                  \o ordered_entries(present, from + 1)
         ELSE ordered_entries(present, from + 1)

\* data.iter().enumerate().skip(offset): the pairs (i, entry) with i the
\* position of the entry in data (0-based), for i >= offset.
enumerate_skip(data, offset) ==
    [j \in 1..(IF Len(data) > offset THEN Len(data) - offset ELSE 0) |->
        [i |-> offset + j - 1, name |-> data[offset + j][1], entry |-> data[offset + j][2]]]

\* The readdir_helper closure: what it passes to reply.add, of which the
\* buffer keeps the first cap.
readdir_helper(data, offset, cap) ==
    LET it == enumerate_skip(data, offset)
        added == [j \in 1..Len(it) |->
                    [ino |-> it[j].entry.ino, offset |-> offset + it[j].i + 1,
                     kind |-> it[j].entry.kind, name |-> it[j].name]]
    IN  SubSeq(added, 1, IF Len(added) < cap THEN Len(added) ELSE cap)

ListLocal(data, start, offset, emitted) ==
    [data |-> data, start |-> start, offset |-> offset, emitted |-> emitted]

InitReaddir ==
    /\ kv = [i \in Inums |-> IF i = FUSE_ROOT_ID THEN open_root_node(1) ELSE NoNode]
    /\ counter = FirstInum
    /\ started = TRUE
    /\ res = NoReply
    /\ unlinked = {}
    /\ rootWrites = 1
    /\ pc = [p \in {TxnClient} |-> "listing"]
    /\ \E present \in SUBSET (1..MaxEntries), start \in 0..MaxEntries :
         loc = [p \in {TxnClient} |->
                  ListLocal(ordered_entries(present, 1), start, start, <<>>)]
    /\ hist = NoHist
    /\ refs = NoRefs

\* One readdir call; the kernel resumes from the offset of the last entry
\* it was given, and stops at an empty reply.
ReaddirCall(p, cap) ==
    /\ pc[p] = "listing"
    /\ LET l == loc[p]
           out == readdir_helper(l.data, l.offset, cap)
       IN  IF out = <<>>
           THEN /\ pc' = [pc EXCEPT ![p] = "done"]
                /\ UNCHANGED loc
           ELSE /\ loc' = [loc EXCEPT ![p] =
                             ListLocal(l.data, l.start, out[Len(out)].offset,
                                       l.emitted \o out)]
                /\ UNCHANGED pc
    /\ UNCHANGED <<kv, counter, started, res, unlinked, rootWrites, hist, refs>>

NextReaddir == \E cap \in 1..MaxEntries : ReaddirCall(TxnClient, cap)

SpecReaddir == InitReaddir /\ [][NextReaddir]_vars

----------------------------------------------------------------------------
(* Properties of SpecReaddir *)

\* The names of the entries at 0-based positions start, start + 1, ...
NamesFrom(data, start) ==
    [j \in 1..(IF Len(data) > start THEN Len(data) - start ELSE 0) |-> data[start + j][1]]

\* C31: the offset emitted with the entry at 0-based position k is k + 1,
\* and a listing resumed from the last emitted offset until the reply is
\* empty has emitted every entry from the start offset on exactly once, in
\* order.
C31_ReaddirEnumeratesOnce ==
    LET l == loc[TxnClient]
    IN  /\ \A j \in 1..Len(l.emitted) :
             l.emitted[j].offset >= 1 /\ l.emitted[j].offset <= Len(l.data)
             /\ l.data[l.emitted[j].offset][1] = l.emitted[j].name
        /\ pc[TxnClient] = "done"
             => [j \in 1..Len(l.emitted) |-> l.emitted[j].name] = NamesFrom(l.data, l.start)

----------------------------------------------------------------------------
(* SpecRead: read_helper computes the length it reads from the file size, *)
(* the offset and the requested size.                                     *)

\* u64 arithmetic is taken modulo WordModulus, which stands for 2^64.
WordModulus == 256

\* overflow_sub of the OverflowArithmetic trait on u64, when a < b: the
\* build either panics or wraps around.
overflow_sub_outcomes(a, b) ==
    IF a >= b THEN {[panic |-> FALSE, value |-> a - b]}
    ELSE {[panic |-> TRUE, value |-> 0],
          [panic |-> FALSE, value |-> (a - b + WordModulus) % WordModulus]}

\* The outcomes of `let size: u64 = if offset + size > attr.size
\* { attr.size - offset } else { size }`.
read_size_outcomes(attr_size, offset, size) ==
    IF (offset + size) % WordModulus > attr_size
    THEN overflow_sub_outcomes(attr_size, offset)
    ELSE {[panic |-> FALSE, value |-> size]}

ReadLocal(attr_size, offset, size, len, panic) ==
    [attr_size |-> attr_size, offset |-> offset, size |-> size, len |-> len, panic |-> panic]

InitRead ==
    /\ kv = [i \in Inums |-> IF i = FUSE_ROOT_ID THEN open_root_node(1) ELSE NoNode]
    /\ counter = FirstInum
    /\ started = TRUE
    /\ res = NoReply
    /\ unlinked = {}
    /\ rootWrites = 1
    /\ pc = [p \in {TxnClient} |-> "reading"]
    /\ \E attr_size \in 0..MaxSize, offset \in 0..(MaxSize + 1), size \in 0..MaxSize :
         loc = [p \in {TxnClient} |-> ReadLocal(attr_size, offset, size, 0, FALSE)]
    /\ hist = NoHist
    /\ refs = NoRefs

ReadCall(p) ==
    /\ pc[p] = "reading"
    /\ \E out \in read_size_outcomes(loc[p].attr_size, loc[p].offset, loc[p].size) :
         loc' = [loc EXCEPT ![p] =
                   ReadLocal(@.attr_size, @.offset, @.size, out.value, out.panic)]
    /\ pc' = [pc EXCEPT ![p] = "done"]
    /\ UNCHANGED <<kv, counter, started, res, unlinked, rootWrites, hist, refs>>

NextRead == ReadCall(TxnClient)

SpecRead == InitRead /\ [][NextRead]_vars

----------------------------------------------------------------------------
(* Properties of SpecRead *)

Min(a, b) == IF a < b THEN a ELSE b

\* C32: the length read is min(size, attr.size - offset) when
\* offset <= attr.size and 0 when offset > attr.size, without a panic, and
\* never more than the size asked for.
C32_ReadClampsToFileSize ==
    LET l == loc[TxnClient]
    IN  pc[TxnClient] = "done"
        => /\ ~l.panic
           /\ l.len <= l.size
           /\ l.len = IF l.offset <= l.attr_size
                      THEN Min(l.size, l.attr_size - l.offset)
                      ELSE 0

----------------------------------------------------------------------------
(* SpecAlloc: the concurrent mknod requests of SpecMknod, with whole      *)
(* forget requests served between their steps, which remove the records   *)
(* of nodes created earlier.                                              *)

NextAlloc ==
    \/ \E p \in Procs, n \in Names, k \in {"file", "dir"} : MknodGetParent(p, n, k)
    \/ \E p \in Procs : MknodAllocInum(p)
    \/ \E p \in Procs : MknodSetChild(p)
    \/ \E p \in Procs : MknodSetParent(p)
    \/ \E i \in Inums \ {FUSE_ROOT_ID}, n \in 1..MaxNLookup : OtherForget(i, n)

SpecAlloc == InitMknod /\ [][NextAlloc]_vars

----------------------------------------------------------------------------
(* Properties of SpecAlloc *)

\* The requests that were given an inum, now or earlier.
Assigned == {p \in Procs : pc[p] \in {"set_child", "set_parent", "done"} /\ loc[p].new_inum # 0}

\* C33: the inums given to mknod requests are never 0 or 1, differ from one
\* request to the other whether the inode of the earlier one still exists or
\* was deleted, are handed out in increasing order, and a record is only
\* ever created under the inum given to the request that writes it.
C33_InumsFreshAndIncreasing ==
    /\ [](/\ \A p \in Assigned : loc[p].new_inum >= FirstInum /\ loc[p].new_inum < counter
          /\ \A p, q \in Assigned : p # q => loc[p].new_inum # loc[q].new_inum
          /\ \A i \in ChildRecords : \E p \in Assigned : loc[p].new_inum = i)
    /\ [][/\ counter' >= counter
          /\ \A p \in Procs :
               (pc[p] = "alloc_inum" /\ pc'[p] = "set_child")
                  => /\ loc'[p].new_inum = counter /\ counter' > counter
                     /\ \A q \in Assigned : loc[q].new_inum < loc'[p].new_inum
          /\ \A i \in Inums :
               (kv[i] = NoNode /\ kv'[i] # NoNode)
                  => \E p \in Procs : pc[p] = "set_child" /\ pc'[p] = "set_parent"
                                      /\ loc[p].new_inum = i]_vars

\* The inode of one request was deleted, and a request served after it was
\* given a larger inum under which its record exists.
C33_Witness ==
    \E p, q \in Procs :
        /\ pc[p] = "done" /\ loc[p].err = "ok" /\ kv[loc[p].new_inum] = NoNode
        /\ pc[q] = "done" /\ loc[q].err = "ok" /\ kv[loc[q].new_inum] # NoNode
        /\ loc[q].new_inum > loc[p].new_inum

----------------------------------------------------------------------------
(* SpecUnlink: the requests of Spec, and unlink requests that name an     *)
(* entry which is a directory in the store (the kernel of the node holds  *)
(* an older entry of that name).                                          *)

\* debug_assert_ne!(S_IFDIR, entry_type) in unlink: a build with debug
\* assertions abandons the request, a build without them goes on to
\* remove_node_helper with the type of the entry.
unlink_outcomes(context, s, parent, name) ==
    IF s[parent] # NoNode /\ get_entry(s[parent], name).kind = "dir"
    THEN {Result("panic", s), unlink(context, s, parent, name)}
    ELSE {unlink(context, s, parent, name)}

UnlinkDirectory(parent, name) ==
    /\ started /\ Accepting
    /\ LiveDir(parent)
    /\ EntryKind(parent, name) = "dir"
    /\ \E r \in unlink_outcomes(Owner, kv, parent, name) :
           /\ kv' = r.kv
           /\ res' = Done("unlink", EntryIno(parent, name), 0, r.err)
           /\ unlinked' = IF r.err = "ok" THEN unlinked \cup {EntryIno(parent, name)}
                          ELSE unlinked
    /\ UNCHANGED <<refs, counter, started, rootWrites, pc, loc>>
    /\ hist' = Record(hist, kv, res)

NextUnlink ==
    \/ Next
    \/ \E parent \in Inums, name \in Names : UnlinkDirectory(parent, name)

SpecUnlink == Init /\ [][NextUnlink]_vars

----------------------------------------------------------------------------
(* Properties of SpecUnlink and of unlink in Spec *)

\* C34: an unlink request whose entry is a directory fails and removes
\* neither the entry nor the record of the directory.
C34_UnlinkForbidsDirectories ==
    [][\A parent \in Inums, name \in Names :
          UnlinkDirectory(parent, name)
             => /\ res'.err # "ok"
                /\ kv' = kv]_vars

\* C35: an unlink request for a name that the existing parent does not hold
\* fails with ENOENT and leaves the store as it was.
C35_UnlinkMissingEntryIsENOENT ==
    [][\A parent \in Inums, name \in Names :
          (Unlink(parent, name) /\ EntryKind(parent, name) = "none")
             => /\ res'.err = "ENOENT"
                /\ kv' = kv]_vars

----------------------------------------------------------------------------
(* Further properties of SpecRename *)

\* C36: a standard rename (flags = 0) of an entry to itself leaves every
\* record of the store as it was and does not end in an unreachable!.
C36_RenameToItselfChangesNothing ==
    [][\A parent \in Inums, name \in Names :
          Rename(parent, name, parent, name, 0)
             => /\ kv' = kv
                /\ res'.err # "panic"]_vars

\* C40: a standard rename of a directory onto another entry that is a
\* directory holding entries (and not an ancestor of the source) leaves that directory linked and its record as it was, so that
\* every record below it keeps an existing parent that is not deferred.
C40_RenameKeepsNonEmptyDirectory ==
    [][\A old_parent \in Inums, old_name \in Names, new_parent \in Inums, new_name \in Names :
          LET replaced == EntryIno(new_parent, new_name)
          IN  (/\ Rename(old_parent, old_name, new_parent, new_name, 0)
               /\ <<old_parent, old_name>> # <<new_parent, new_name>>
               /\ EntryKind(old_parent, old_name) = "dir"
               /\ EntryKind(new_parent, new_name) = "dir"
               /\ ~InSubtree(kv, replaced, old_parent, MaxIno)
               /\ kv[replaced] # NoNode
               /\ ~is_node_data_empty(kv[replaced]))
                 => /\ kv'[replaced] = kv[replaced]
                    /\ get_entry(kv'[new_parent], new_name).ino = replaced
                    /\ \A i \in Inums :
                          (kv'[i] # NoNode /\ kv'[i].parent_ino = replaced)
                             => ~kv'[replaced].deferred_deletion]_vars

----------------------------------------------------------------------------
(* Further properties of SpecCount (no request of it creates an inode) *)

\* C37: once the record of an inode is gone from the store, no step writes
\* a record under its inum again.
C37_RemovedRecordStaysRemoved ==
    [][\A i \in Inums : kv[i] = NoNode => kv'[i] = NoNode]_vars

----------------------------------------------------------------------------
(* SpecRace: mknod, unlink, rmdir and standard rename requests of several *)
(* nodes, each taken one KV call at a time.  None of them runs in a       *)
(* transaction, so the calls of different requests interleave freely.     *)
(* "panic" is the outcome of an unreachable! and of a debug assertion     *)
(* that fails in a build that keeps debug assertions; a build without     *)
(* them goes on past the assertion.                                       *)

\* Directory d (ino 2, name 1) and file f (ino 3, name 2) in the root.
TreeRace == << <<1, 1, "dir">>, <<1, 2, "file">> >>

FileOfTreeRace == 3

\* The local variables of a request: node is the record it holds between a
\* get and the set that follows, del the inum handed to
\* may_deferred_delete_node_helper and ret the place to go on after it.
NoRace ==
    [op |-> "none", parent |-> 0, name |-> 0, kind |-> "none",
     new_parent |-> 0, new_name |-> 0, ino |-> 0, new_ino |-> 0,
     del |-> 0, deferred |-> FALSE, dparent |-> 0, dname |-> 0,
     node |-> NoNode, child |-> NoNode, entry |-> NoEntry,
     replaced |-> FALSE, ret |-> "done", err |-> "none"]

Finish(p, l, err) ==
    /\ pc' = [pc EXCEPT ![p] = "done"]
    /\ loc' = [loc EXCEPT ![p] = [l EXCEPT !.err = err]]

Goto(p, l, to) ==
    /\ pc' = [pc EXCEPT ![p] = to]
    /\ loc' = [loc EXCEPT ![p] = l]

\* A debug assertion: where it fails, the request panics or goes on.
DebugAssert(p, l, holds, to) ==
    \/ /\ ~holds
       /\ Finish(p, l, "panic")
    \/ Goto(p, l, to)

InitRace ==
    /\ \E dropped \in BOOLEAN :
         LET root == [i \in Inums |-> IF i = FUSE_ROOT_ID THEN open_root_node(1) ELSE NoNode]
             b == Build(root, FirstInum, TreeRace)
         IN  /\ kv = IF dropped THEN DropReferences(b.kv, FileOfTreeRace) ELSE b.kv
             /\ counter = b.counter
    /\ started = TRUE
    /\ res = NoReply
    /\ unlinked = {}
    /\ rootWrites = 1
    /\ pc = [p \in Procs |-> "idle"]
    /\ loc = [p \in Procs |-> NoRace]
    /\ hist = NoHist
    /\ refs = NoRefs

\* mknod: get_node_from_kv_engine(parent_ino) and check_name_availability
RaceMknodGetParent(p, parent, name, kind) ==
    /\ pc[p] = "idle"
    /\ LET l == [NoRace EXCEPT !.op = "mknod", !.parent = parent, !.name = name,
                               !.kind = kind]
       IN  IF kv[parent] = NoNode THEN Finish(p, l, "InconsistentFS")
           ELSE IF ~check_name_availability(kv[parent], name) THEN Finish(p, l, "EEXIST")
           ELSE Goto(p, [l EXCEPT !.node = kv[parent]], "mk_alloc")
    /\ UNCHANGED <<kv, counter, started, res, unlinked, rootWrites, hist, refs>>

\* mknod: alloc_inum and create_child_node
RaceMknodAllocInum(p) ==
    /\ pc[p] = "mk_alloc"
    /\ counter <= MaxIno
    /\ counter' = alloc_inum(counter).counter
    /\ LET new_inum == alloc_inum(counter).inum
           made == create_child_node(loc[p].node, loc[p].parent, loc[p].name,
                                     loc[p].kind, new_inum, Owner.uid, FALSE)
       IN  Goto(p, [loc[p] EXCEPT !.ino = new_inum, !.child = made.child,
                                  !.node = made.parent], "mk_set_child")
    /\ UNCHANGED <<kv, started, res, unlinked, rootWrites, hist, refs>>

\* mknod: set_node_to_kv_engine(new_ino, new_node)
RaceMknodSetChild(p) ==
    /\ pc[p] = "mk_set_child"
    /\ kv' = set_node_to_kv_engine(kv, loc[p].ino, loc[p].child)
    /\ Goto(p, loc[p], "mk_set_parent")
    /\ UNCHANGED <<counter, started, res, unlinked, rootWrites, hist, refs>>

\* mknod: set_node_to_kv_engine(parent_ino, parent_node)
RaceMknodSetParent(p) ==
    /\ pc[p] = "mk_set_parent"
    /\ kv' = set_node_to_kv_engine(kv, loc[p].parent, loc[p].node)
    /\ Finish(p, loc[p], "ok")
    /\ UNCHANGED <<counter, started, res, unlinked, rootWrites, hist, refs>>

\* unlink: get_node_from_kv_engine(parent) and the type of the entry.  The
\* kernel sends unlink for an entry that is not a directory.
RaceUnlinkGetParent(p, parent, name) ==
    /\ pc[p] = "idle"
    /\ EntryKind(parent, name) # "dir"
    /\ LET l == [NoRace EXCEPT !.op = "unlink", !.parent = parent, !.name = name]
       IN  IF kv[parent] = NoNode THEN Finish(p, l, "InconsistentFS")
           ELSE IF get_entry(kv[parent], name) = NoEntry THEN Finish(p, l, "InconsistentFS")
           ELSE Goto(p, [l EXCEPT !.kind = get_entry(kv[parent], name).kind], "rm_parent")
    /\ UNCHANGED <<kv, counter, started, res, unlinked, rootWrites, hist, refs>>

\* remove_node_local: get_node_from_kv_engine(parent), the entry and the
\* sticky bit
remove_get_parent(p, l) ==
    IF kv[l.parent] = NoNode THEN Finish(p, l, "InconsistentFS")
    ELSE IF get_entry(kv[l.parent], l.name) = NoEntry THEN Finish(p, l, "ENOENT")
    ELSE IF check_sticky_bit(Owner, kv[l.parent], get_entry(kv[l.parent], l.name)) # "ok"
    THEN Finish(p, l, "EACCES")
    ELSE Goto(p, [l EXCEPT !.ino = get_entry(kv[l.parent], l.name).ino],
              IF l.kind = "dir" THEN "rm_dir" ELSE "rm_child")

RaceRemoveGetParent(p) ==
    /\ pc[p] = "rm_parent"
    /\ remove_get_parent(p, loc[p])
    /\ UNCHANGED <<kv, counter, started, res, unlinked, rootWrites, hist, refs>>

\* rmdir calls remove_node_helper with S_IFDIR.  The kernel sends rmdir for
\* an entry that is a directory.
RaceRmdirGetParent(p, parent, name) ==
    /\ pc[p] = "idle"
    /\ EntryKind(parent, name) = "dir"
    /\ remove_get_parent(p, [NoRace EXCEPT !.op = "rmdir", !.parent = parent,
                                          !.name = name, !.kind = "dir"])
    /\ UNCHANGED <<kv, counter, started, res, unlinked, rootWrites, hist, refs>>

\* remove_node_local: get_node_from_kv_engine(node_ino), is_node_data_empty
RaceRemoveGetDir(p) ==
    /\ pc[p] = "rm_dir"
    /\ IF kv[loc[p].ino] = NoNode THEN Finish(p, loc[p], "InconsistentFS")
       ELSE IF ~is_node_data_empty(kv[loc[p].ino]) THEN Finish(p, loc[p], "ENOTEMPTY")
       ELSE Goto(p, loc[p], "rm_child")
    /\ UNCHANGED <<kv, counter, started, res, unlinked, rootWrites, hist, refs>>

\* remove_node_local: get_node_from_kv_engine(node_ino) and the assertions
\* on the child's name, parent and type
RaceRemoveGetChild(p) ==
    /\ pc[p] = "rm_child"
    /\ IF kv[loc[p].ino] = NoNode THEN Finish(p, loc[p], "InconsistentFS")
       ELSE DebugAssert(p, [loc[p] EXCEPT !.del = loc[p].ino, !.ret = "done"],
                        /\ kv[loc[p].ino].name = loc[p].name
                        /\ kv[loc[p].ino].parent_ino = loc[p].parent
                        /\ kv[loc[p].ino].kind = loc[p].kind,
                        "del_get")
    /\ UNCHANGED <<kv, counter, started, res, unlinked, rootWrites, hist, refs>>

\* may_deferred_delete_node_helper: get_node_from_kv_engine(ino) and
\* deferred_delete_pre_check
RaceDeleteGetNode(p) ==
    /\ pc[p] = "del_get"
    /\ IF kv[loc[p].del] = NoNode THEN Finish(p, loc[p], "EIO")
       ELSE LET chk == deferred_delete_pre_check(kv[loc[p].del])
            IN  Goto(p, [loc[p] EXCEPT !.deferred = chk.deferred_deletion,
                                       !.dparent = chk.parent_ino,
                                       !.dname = chk.name], "del_parent")
    /\ UNCHANGED <<kv, counter, started, res, unlinked, rootWrites, hist, refs>>

\* may_deferred_delete_node_helper: get_node_from_kv_engine(parent_ino),
\* unlink_entry and the assertion on the inum of the deleted entry
RaceDeleteGetParent(p) ==
    /\ pc[p] = "del_parent"
    /\ IF kv[loc[p].dparent] = NoNode THEN Finish(p, loc[p], "EIO")
       ELSE IF get_entry(kv[loc[p].dparent], loc[p].dname) = NoEntry
       THEN Finish(p, loc[p], "EIO")
       ELSE DebugAssert(p, [loc[p] EXCEPT !.node = unlink_entry(kv[loc[p].dparent],
                                                                loc[p].dname)],
                        get_entry(kv[loc[p].dparent], loc[p].dname).ino = loc[p].del,
                        "del_node")
    /\ UNCHANGED <<kv, counter, started, res, unlinked, rootWrites, hist, refs>>

\* may_deferred_delete_node_helper: the re-read of the inode to mark it
\* deferred (the mark is not written), or remove_node_from_kv_engine(ino)
RaceDeleteNode(p) ==
    /\ pc[p] = "del_node"
    /\ IF loc[p].deferred
       THEN /\ kv' = kv
            /\ IF kv[loc[p].del] = NoNode THEN Finish(p, loc[p], "panic")
               ELSE Goto(p, loc[p], "del_set")
       ELSE /\ kv' = remove_node_from_kv_engine(kv, loc[p].del)
            /\ Goto(p, loc[p], "del_set")
    /\ UNCHANGED <<counter, started, res, unlinked, rootWrites, hist, refs>>

\* may_deferred_delete_node_helper: set_node_to_kv_engine(parent_ino, parent_node)
RaceDeleteSetParent(p) ==
    /\ pc[p] = "del_set"
    /\ kv' = set_node_to_kv_engine(kv, loc[p].dparent, loc[p].node)
    /\ IF loc[p].ret = "done" THEN Finish(p, loc[p], "ok")
       ELSE Goto(p, loc[p], loc[p].ret)
    /\ UNCHANGED <<counter, started, res, unlinked, rootWrites, hist, refs>>

\* rename_pre_check: the old parent and the old entry.  The kernel sends a
\* rename to another entry, and never moves a directory below itself.
RaceRenameGetOld(p, old_parent, old_name, new_parent, new_name) ==
    /\ pc[p] = "idle"
    /\ <<old_parent, old_name>> # <<new_parent, new_name>>
    /\ EntryIno(old_parent, old_name) # 0
          => ~InSubtree(kv, EntryIno(old_parent, old_name), new_parent, MaxIno)
    /\ LET l == [NoRace EXCEPT !.op = "rename", !.parent = old_parent,
                               !.name = old_name, !.new_parent = new_parent,
                               !.new_name = new_name]
       IN  IF kv[old_parent] = NoNode THEN Finish(p, l, "InconsistentFS")
           ELSE IF get_entry(kv[old_parent], old_name) = NoEntry
           THEN Finish(p, l, "ENOENT")
           ELSE IF check_sticky_bit(Owner, kv[old_parent],
                                    get_entry(kv[old_parent], old_name)) # "ok"
           THEN Finish(p, l, "EACCES")
           ELSE Goto(p, [l EXCEPT !.ino = get_entry(kv[old_parent], old_name).ino],
                     "rn_new")
    /\ UNCHANGED <<kv, counter, started, res, unlinked, rootWrites, hist, refs>>

\* rename_pre_check: the new parent and the entry to replace (flags = 0)
RaceRenameGetNew(p) ==
    /\ pc[p] = "rn_new"
    /\ LET l == loc[p]
       IN  IF kv[l.new_parent] = NoNode THEN Finish(p, l, "InconsistentFS")
           ELSE LET new_entry == get_entry(kv[l.new_parent], l.new_name)
                IN  IF new_entry = NoEntry THEN Goto(p, l, "rn_get")
                    ELSE IF check_sticky_bit(Owner, kv[l.new_parent], new_entry) # "ok"
                    THEN Finish(p, l, "EACCES")
                    ELSE Goto(p, [l EXCEPT !.new_ino = new_entry.ino,
                                           !.del = new_entry.ino,
                                           !.ret = "rn_get"], "del_get")
    /\ UNCHANGED <<kv, counter, started, res, unlinked, rootWrites, hist, refs>>

\* rename_may_replace_local: the re-read of the moved inode
RaceRenameGetMoved(p) ==
    /\ pc[p] = "rn_get"
    /\ IF kv[loc[p].ino] = NoNode THEN Finish(p, loc[p], "panic")
       ELSE Goto(p, [loc[p] EXCEPT !.node =
                        set_name(set_parent_ino(kv[loc[p].ino], loc[p].new_parent),
                                 loc[p].new_name)], "rn_set")
    /\ UNCHANGED <<kv, counter, started, res, unlinked, rootWrites, hist, refs>>

\* rename_may_replace_local: set_node_to_kv_engine(old_entry_ino, moved_node)
RaceRenameSetMoved(p) ==
    /\ pc[p] = "rn_set"
    /\ kv' = set_node_to_kv_engine(kv, loc[p].ino, loc[p].node)
    /\ Goto(p, loc[p], "rn_old_get")
    /\ UNCHANGED <<counter, started, res, unlinked, rootWrites, hist, refs>>

\* rename_in_cache_helper: the old parent and remove_entry_for_rename
RaceRenameGetOldParent(p) ==
    /\ pc[p] = "rn_old_get"
    /\ IF kv[loc[p].parent] = NoNode THEN Finish(p, loc[p], "panic")
       ELSE IF get_entry(kv[loc[p].parent], loc[p].name) = NoEntry
       THEN Finish(p, loc[p], "panic")
       ELSE Goto(p, [loc[p] EXCEPT
                        !.entry = get_entry(kv[loc[p].parent], loc[p].name),
                        !.node = remove_entry_for_rename(kv[loc[p].parent], loc[p].name)],
                 "rn_old_set")
    /\ UNCHANGED <<kv, counter, started, res, unlinked, rootWrites, hist, refs>>

\* rename_in_cache_helper: set_node_to_kv_engine(old_parent, old_parent_node)
RaceRenameSetOldParent(p) ==
    /\ pc[p] = "rn_old_set"
    /\ kv' = set_node_to_kv_engine(kv, loc[p].parent, loc[p].node)
    /\ Goto(p, loc[p], "rn_new_get")
    /\ UNCHANGED <<counter, started, res, unlinked, rootWrites, hist, refs>>

\* rename_in_cache_helper: the new parent and insert_entry_for_rename,
\* which returns the entry it replaced
RaceRenameGetNewParent(p) ==
    /\ pc[p] = "rn_new_get"
    /\ IF kv[loc[p].new_parent] = NoNode THEN Finish(p, loc[p], "panic")
       ELSE Goto(p, [loc[p] EXCEPT
                        !.replaced = get_entry(kv[loc[p].new_parent], loc[p].new_name) # NoEntry,
                        !.node = insert_entry_for_rename(kv[loc[p].new_parent],
                                                         loc[p].new_name, loc[p].entry)],
                 "rn_new_set")
    /\ UNCHANGED <<kv, counter, started, res, unlinked, rootWrites, hist, refs>>

\* rename_in_cache_helper: set_node_to_kv_engine(new_parent, new_parent_node),
\* then debug_assert!(rename_replace_res.is_none())
RaceRenameSetNewParent(p) ==
    /\ pc[p] = "rn_new_set"
    /\ kv' = set_node_to_kv_engine(kv, loc[p].new_parent, loc[p].node)
    /\ \/ /\ loc[p].replaced
          /\ Finish(p, loc[p], "panic")
       \/ Finish(p, loc[p], "ok")
    /\ UNCHANGED <<counter, started, res, unlinked, rootWrites, hist, refs>>

\* The directories the requests name: the root and d.
RaceDirs == {FUSE_ROOT_ID, FirstInum}

NextRace ==
    \/ \E p \in Procs, d \in RaceDirs, n \in Names, k \in {"file", "dir"} :
           RaceMknodGetParent(p, d, n, k)
    \/ \E p \in Procs : RaceMknodAllocInum(p)
    \/ \E p \in Procs : RaceMknodSetChild(p)
    \/ \E p \in Procs : RaceMknodSetParent(p)
    \/ \E p \in Procs, d \in RaceDirs, n \in Names : RaceUnlinkGetParent(p, d, n)
    \/ \E p \in Procs : RaceRemoveGetParent(p)
    \/ \E p \in Procs, d \in RaceDirs, n \in Names : RaceRmdirGetParent(p, d, n)
    \/ \E p \in Procs : RaceRemoveGetDir(p)
    \/ \E p \in Procs : RaceRemoveGetChild(p)
    \/ \E p \in Procs : RaceDeleteGetNode(p)
    \/ \E p \in Procs : RaceDeleteGetParent(p)
    \/ \E p \in Procs : RaceDeleteNode(p)
    \/ \E p \in Procs : RaceDeleteSetParent(p)
    \/ \E p \in Procs, d \in RaceDirs, n \in Names, e \in RaceDirs, m \in Names :
           RaceRenameGetOld(p, d, n, e, m)
    \/ \E p \in Procs : RaceRenameGetNew(p)
    \/ \E p \in Procs : RaceRenameGetMoved(p)
    \/ \E p \in Procs : RaceRenameSetMoved(p)
    \/ \E p \in Procs : RaceRenameGetOldParent(p)
    \/ \E p \in Procs : RaceRenameSetOldParent(p)
    \/ \E p \in Procs : RaceRenameGetNewParent(p)
    \/ \E p \in Procs : RaceRenameSetNewParent(p)

SpecRace == InitRace /\ [][NextRace]_vars

----------------------------------------------------------------------------
(* Properties of SpecRace *)

\* A mknod request that has read its parent directory and not yet written it.
MknodInFlight(q, d) ==
    /\ loc[q].op = "mknod" /\ loc[q].parent = d
    /\ pc[q] \in {"mk_alloc", "mk_set_child", "mk_set_parent"}

\* C38: when an rmdir request removes the record of the directory, or
\* writes the parent without its entry, the directory holds no entry and no
\* mknod that found the directory present is still about to write into it.
C38_RmdirRemovesEmptyDirectory ==
    [][\A p \in Procs :
          (/\ loc[p].op = "rmdir"
           /\ pc[p] \in {"del_node", "del_set"}
           /\ pc'[p] # pc[p] /\ loc'[p].err # "panic"
           /\ kv[loc[p].del] # NoNode)
             => /\ is_node_data_empty(kv[loc[p].del])
                /\ \A q \in Procs : ~MknodInFlight(q, loc[p].del)]_vars

\* C39: no request ends in an unreachable! or in a failed assertion.
C39_NoUnreachableNoFailedAssertion ==
    \A p \in Procs : pc[p] = "done" => loc[p].err # "panic"

====
